---------------------------- MODULE Spec2Model ----------------------------
(***************************************************************************)
(* FM index, bidirectional FM index, their iterators (cursors) and the     *)
(* approximate-search drivers of seqan3, as a state machine.               *)
(*                                                                         *)
(* A text is a sequence of alphabet ranks 0 .. AlphabetSize-1.  The index  *)
(* stores rank+1 per symbol and a sentinel 0 (fm_index::construct).        *)
(* Suffix-array positions are 0-based as in the source; TLA+ sequences are *)
(* 1-based, so position p of a C++ vector v is v[p + 1] here.              *)
(***************************************************************************)
EXTENDS Integers, Sequences, FiniteSets, TLC

\* ------------------------------------------------------------------ bounds
AlphabetSize == 3
MaxTextLen == 3
MaxSeqLen == 2

\* Texts of the client that compares copies of its cursor.
MaxCompareTextLen == 2

\* Alphabet, texts, queries and error budgets of the client that searches.
SearchAlphabetSize == 2

MaxSearchTextLen == 4

MaxQueryLen == 4

MaxErrors == 2

\* The longest query whose block info is computed.
MaxBlockQueryLen == 40

Ranks == 0 .. (AlphabetSize - 1)

SeqsOfLen(S, n) == [1 .. n -> S]

SeqsUpTo(S, n) == UNION { SeqsOfLen(S, k) : k \in 1 .. n }

Texts == SeqsUpTo(Ranks, MaxTextLen)

Reverse(s) == [i \in 1 .. Len(s) |-> s[Len(s) + 1 - i]]

Min(a, b) == IF a < b THEN a ELSE b

Max(a, b) == IF a > b THEN a ELSE b

\* ------------------------------------------------- index construction (CSA)

\* fm_index::construct: tmp_text[text.end() - it - 1] = to_rank(*it) + 1,
\* then the sentinel 0 is appended by the CSA construction.
IndexedText(text) ==
    [i \in 1 .. Len(text) + 1 |->
        IF i = Len(text) + 1 THEN 0 ELSE text[Len(text) + 1 - i] + 1]

\* Lexicographic order of the suffixes of s starting at 0-based a and b.
\* The sentinel is unique and smallest, so the comparison always ends.
RECURSIVE SuffixLess(_, _, _)
SuffixLess(s, a, b) ==
    IF a = b THEN FALSE
    ELSE IF s[a + 1] < s[b + 1] THEN TRUE
    ELSE IF s[a + 1] > s[b + 1] THEN FALSE
    ELSE SuffixLess(s, a + 1, b + 1)

\* sa[i + 1] is the start of the i-th smallest suffix (csa[i] in the source).
SuffixArray(s) ==
    [k \in 1 .. Len(s) |->
        CHOOSE p \in 0 .. Len(s) - 1 :
            Cardinality({q \in 0 .. Len(s) - 1 : SuffixLess(s, q, p)}) = k - 1]

\* bwt[i + 1] is the symbol preceding the i-th smallest suffix (cyclically).
BWT(s, sa) ==
    [k \in 1 .. Len(s) |->
        IF sa[k] = 0 THEN s[Len(s)] ELSE s[sa[k]]]

\* plain_byte_alphabet: C[c] = number of symbols of the indexed text smaller
\* than c (the table keeps all 257 entries; the cursors read it up to
\* AlphabetSize + 1), sigma = largest symbol + 1.
PlainByteC(s) ==
    [c \in 0 .. AlphabetSize + 1 |->
        Cardinality({i \in 1 .. Len(s) : s[i] < c})]

PlainByteSigma(s) ==
    (CHOOSE m \in 0 .. AlphabetSize :
        /\ \E i \in 1 .. Len(s) : s[i] = m
        /\ \A i \in 1 .. Len(s) : s[i] <= m) + 1

\* plain_byte_alphabet::mapping_wrapper: char2comp and comp2char return
\* their argument.
PlainByteMapping == [c \in 0 .. AlphabetSize + 1 |-> c]

ConstructCSA(s) ==
    LET sa == SuffixArray(s)
    IN  [size |-> Len(s), sigma |-> PlainByteSigma(s), C |-> PlainByteC(s),
         sa |-> sa, bwt |-> BWT(s, sa), alphabet |-> "plain_byte_alphabet",
         char2comp |-> PlainByteMapping, comp2char |-> PlainByteMapping]

\* A byte alphabet that renumbers the symbols present in the indexed text
\* densely, in their order: char2comp is 0 for an absent symbol, comp2char
\* is its inverse on [0, sigma) and 0 above, C counts the symbols smaller
\* than a compact code, sigma is the number of distinct symbols.
ConstructReducedCSA(s) ==
    LET sa == SuffixArray(s)
        present == { s[i] : i \in 1 .. Len(s) }
        sigma == Cardinality(present)
        char2comp == [c \in 0 .. AlphabetSize + 1 |->
                         IF c \in present
                         THEN Cardinality({d \in present : d < c}) ELSE 0]
        comp2char == [cc \in 0 .. AlphabetSize + 1 |->
                         IF cc < sigma
                         THEN CHOOSE c \in present : char2comp[c] = cc ELSE 0]
    IN  [size |-> Len(s), sigma |-> sigma,
         C |-> [cc \in 0 .. AlphabetSize + 1 |->
                   Cardinality({i \in 1 .. Len(s) : char2comp[s[i]] < cc})],
         sa |-> sa, bwt |-> BWT(s, sa), alphabet |-> "byte_alphabet",
         char2comp |-> char2comp, comp2char |-> comp2char]

\* fm_index::construct
construct(text) == ConstructCSA(IndexedText(text))

\* fm_index::construct for an index type whose alphabet is reduced.
construct_reduced(text) == ConstructReducedCSA(IndexedText(text))

\* bi_fm_index::construct: fwd_fm over the text, rev_fm over its reverse.
bi_construct(text) ==
    [fwd_fm |-> construct(text), rev_fm |-> construct(Reverse(text))]

\* csa.bwt.rank(i, c): occurrences of c in bwt[0 .. i-1].
rank(csa, i, c) == Cardinality({j \in 1 .. i : csa.bwt[j] = c})

\* csa.wavelet_tree.lex_count(i, j, c):
\* <<rank(i, c), #symbols < c in bwt[i .. j-1], #symbols > c in bwt[i .. j-1]>>.
lex_count(csa, i, j, c) ==
    << rank(csa, i, c),
       Cardinality({k \in i + 1 .. j : csa.bwt[k] < c}),
       Cardinality({k \in i + 1 .. j : csa.bwt[k] > c}) >>

\* ------------------------------------------- unidirectional cursor (iterator)

\* Members a constructor leaves uninitialised hold an arbitrary value.
Uninitialised == {0, 1}

\* fm_index_iterator::backward_search: the plain_byte_alphabet branch, and
\* the branch for the other alphabets, which maps c by char2comp.
backward_search(csa, l, r, c) ==
    IF csa.alphabet = "plain_byte_alphabet"
    THEN LET c_begin == csa.C[c]
             whole == (r + 1 - l = csa.size)
             l_res == IF whole THEN c_begin ELSE c_begin + rank(csa, l, c)
             r_res == IF whole THEN csa.C[c + 1] - 1
                      ELSE c_begin + rank(csa, r + 1, c) - 1
         IN  [ok |-> r_res >= l_res, lb |-> l_res, rb |-> r_res]
    ELSE LET cc == csa.char2comp[c]
             c_begin == csa.C[cc]
             whole == (l = 0 /\ r + 1 = csa.size)
             l_res == IF whole THEN c_begin ELSE c_begin + rank(csa, l, c)
             r_res == IF whole THEN csa.C[cc + 1] - 1
                      ELSE c_begin + rank(csa, r + 1, c) - 1
         IN  IF cc = 0 /\ c > 0 THEN [ok |-> FALSE, lb |-> l, rb |-> r]
             ELSE [ok |-> whole \/ r_res >= l_res, lb |-> l_res, rb |-> r_res]

\* fm_index_iterator(index): m_node = {0, size - 1, 0, 0}; the parent
\* interval is not initialised.
fm_root(csa, g1, g2) ==
    [lb |-> 0, rb |-> csa.size - 1, depth |-> 0, last_char |-> 0,
     parent_lb |-> g1, parent_rb |-> g2]

\* Smallest compact code c in [from, sigma) whose backward search from
\* [l, r] succeeds, or sigma (the while loops of extend_right / cycle_back).
RECURSIVE fm_scan(_, _, _, _)
fm_scan(csa, l, r, c) ==
    IF c < csa.sigma /\ ~backward_search(csa, l, r, csa.comp2char[c]).ok
    THEN fm_scan(csa, l, r, c + 1)
    ELSE c

\* Mutant of fm_extend_right: the scan starts at compact code 2.
fm_extend_right_from_two(csa, it) ==
    LET c == fm_scan(csa, it.lb, it.rb, 2)
    IN  IF c # csa.sigma
        THEN LET res == backward_search(csa, it.lb, it.rb, c)
             IN  [ok |-> TRUE,
                  it |-> [lb |-> res.lb, rb |-> res.rb, depth |-> it.depth + 1,
                          last_char |-> c,
                          parent_lb |-> it.lb, parent_rb |-> it.rb]]
        ELSE [ok |-> FALSE, it |-> it]

\* fm_index_iterator::extend_right()
fm_extend_right(csa, it) ==
    LET c == fm_scan(csa, it.lb, it.rb, 1)
    IN  IF c # csa.sigma
        THEN LET res == backward_search(csa, it.lb, it.rb, csa.comp2char[c])
             IN  [ok |-> TRUE,
                  it |-> [lb |-> res.lb, rb |-> res.rb, depth |-> it.depth + 1,
                          last_char |-> c,
                          parent_lb |-> it.lb, parent_rb |-> it.rb]]
        ELSE [ok |-> FALSE, it |-> it]

\* fm_index_iterator::extend_right(char_t c); chr is the rank of c.
fm_extend_right_char(csa, it, chr) ==
    LET c_char == chr + 1
        res == backward_search(csa, it.lb, it.rb, c_char)
    IN  IF res.ok
        THEN [ok |-> TRUE,
              it |-> [lb |-> res.lb, rb |-> res.rb, depth |-> it.depth + 1,
                      last_char |-> c_char,
                      parent_lb |-> it.lb, parent_rb |-> it.rb]]
        ELSE [ok |-> FALSE, it |-> it]

\* The for loop of fm_index_iterator::extend_right(seq) from symbol i on,
\* with the locals _lb, _rb: the interval before the last symbol and the
\* final interval, or failure at the first symbol that does not extend.
RECURSIVE fm_seq_loop(_, _, _, _, _)
fm_seq_loop(csa, seq, i, l, r) ==
    LET res == backward_search(csa, l, r, seq[i] + 1)
    IN  IF ~res.ok THEN [ok |-> FALSE]
        ELSE IF i = Len(seq)
        THEN [ok |-> TRUE, lb |-> res.lb, rb |-> res.rb,
              parent_lb |-> l, parent_rb |-> r]
        ELSE fm_seq_loop(csa, seq, i + 1, res.lb, res.rb)

\* Mutant of fm_extend_right_seq: the loop works on the cursor itself, so a
\* failure after a successful first symbol leaves the cursor advanced by it.
fm_extend_right_seq_partial(csa, it, seq) ==
    LET res == fm_seq_loop(csa, seq, 1, it.lb, it.rb)
        first == backward_search(csa, it.lb, it.rb, seq[1] + 1)
    IN  IF res.ok
        THEN [ok |-> TRUE,
              it |-> [lb |-> res.lb, rb |-> res.rb,
                      depth |-> Len(seq) + it.depth,
                      last_char |-> seq[Len(seq)] + 1,
                      parent_lb |-> res.parent_lb,
                      parent_rb |-> res.parent_rb]]
        ELSE IF first.ok
        THEN [ok |-> FALSE,
              it |-> [lb |-> first.lb, rb |-> first.rb,
                      depth |-> it.depth + 1, last_char |-> seq[1] + 1,
                      parent_lb |-> it.lb, parent_rb |-> it.rb]]
        ELSE [ok |-> FALSE, it |-> it]

\* fm_index_iterator::extend_right(seq); seq is not empty.
fm_extend_right_seq(csa, it, seq) ==
    LET res == fm_seq_loop(csa, seq, 1, it.lb, it.rb)
    IN  IF res.ok
        THEN [ok |-> TRUE,
              it |-> [lb |-> res.lb, rb |-> res.rb,
                      depth |-> Len(seq) + it.depth,
                      last_char |-> seq[Len(seq)] + 1,
                      parent_lb |-> res.parent_lb,
                      parent_rb |-> res.parent_rb]]
        ELSE [ok |-> FALSE, it |-> it]

\* Mutant of fm_cycle_back: the scanned compact code is stored before the
\* outcome is known, so a failed call leaves last_char at sigma.
fm_cycle_back_stores_char(csa, it) ==
    LET c == fm_scan(csa, it.parent_lb, it.parent_rb, it.last_char + 1)
    IN  IF c # csa.sigma
        THEN LET res == backward_search(csa, it.parent_lb, it.parent_rb, c)
             IN  [ok |-> TRUE,
                  it |-> [it EXCEPT !.lb = res.lb, !.rb = res.rb,
                                    !.last_char = c]]
        ELSE [ok |-> FALSE, it |-> [it EXCEPT !.last_char = c]]

\* fm_index_iterator::cycle_back(); requires depth > 0 and a valid parent.
fm_cycle_back(csa, it) ==
    LET c == fm_scan(csa, it.parent_lb, it.parent_rb, it.last_char + 1)
    IN  IF c # csa.sigma
        THEN LET res == backward_search(csa, it.parent_lb, it.parent_rb,
                                        csa.comp2char[c])
             IN  [ok |-> TRUE,
                  it |-> [it EXCEPT !.lb = res.lb, !.rb = res.rb,
                                    !.last_char = c]]
        ELSE [ok |-> FALSE, it |-> it]

\* fm_index_iterator::operator== : the position in the implicit suffix tree
\* is defined by the SA range and the depth.
fm_equal(a, b) ==
    /\ a.lb = b.lb
    /\ a.rb = b.rb
    /\ a.depth = b.depth

\* The assertion of fm_index_iterator::operator==.
fm_equal_assert(a, b) ==
    \/ ~fm_equal(a, b)
    \/ a.depth = 0
    \/ (a.parent_lb = b.parent_lb /\ a.parent_rb = b.parent_rb)

\* fm_index_iterator::last_char(): comp2char[last_char] - 1
fm_last_char(csa, it) == csa.comp2char[it.last_char] - 1

\* fm_index_iterator::query_length()
fm_query_length(it) == it.depth

\* fm_index_iterator::offset()
fm_offset(csa, it) == csa.size - fm_query_length(it) - 1

\* fm_index_iterator::count()
fm_count(it) == 1 + it.rb - it.lb

\* Mutant of fm_locate: the suffix array entries of the reversed text are
\* returned without being recomputed by offset().
fm_locate_no_offset(csa, it) ==
    [i \in 1 .. (1 + it.rb - it.lb) |-> csa.sa[it.lb + i]]

\* fm_index_iterator::locate()
fm_locate(csa, it) ==
    [i \in 1 .. fm_count(it) |-> fm_offset(csa, it) - csa.sa[it.lb + i]]

\* ranges::view::slice(from, to) of a 0-based range
Slice(s, from, to) == [i \in 1 .. (to - from) |-> s[from + i]]

\* fm_index_iterator::query()
fm_query(csa, text, it) ==
    LET query_begin == fm_offset(csa, it) - csa.sa[it.lb + 1]
    IN  Slice(text, query_begin, query_begin + fm_query_length(it))

\* --------------------------------------------- bidirectional cursor (iterator)

\* Mutant of bidirectional_search: the mirror interval is moved by the count
\* of the larger symbols instead of the smaller ones.
bidirectional_search_larger(csa, l_fwd, r_fwd, l_bwd, r_bwd, c) ==
    LET c_begin == csa.C[c]
        whole == (r_fwd + 1 - l_fwd = csa.size)
        r_s_b == lex_count(csa, l_fwd, r_fwd + 1, c)
        rank_l == r_s_b[1]
        s == r_s_b[2]
        b == r_s_b[3]
        rank_r == r_fwd - l_fwd - s - b + rank_l
        l_fwd_res == IF whole THEN c_begin ELSE c_begin + rank_l
        r_fwd_res == IF whole THEN csa.C[c + 1] - 1 ELSE c_begin + rank_r
        l_bwd_res == IF whole THEN c_begin ELSE l_bwd + b
        r_bwd_res == IF whole THEN r_fwd_res ELSE r_bwd - s
    IN  [ok |-> r_fwd_res >= l_fwd_res,
         l_fwd |-> l_fwd_res, r_fwd |-> r_fwd_res,
         l_bwd |-> l_bwd_res, r_bwd |-> r_bwd_res]

\* bi_fm_index_iterator::bidirectional_search, plain_byte_alphabet branch.
\* (l_fwd, r_fwd) is the interval in csa, (l_bwd, r_bwd) the one in the
\* mirror index.
bidirectional_search(csa, l_fwd, r_fwd, l_bwd, r_bwd, c) ==
    LET c_begin == csa.C[c]
        whole == (r_fwd + 1 - l_fwd = csa.size)
        r_s_b == lex_count(csa, l_fwd, r_fwd + 1, c)
        rank_l == r_s_b[1]
        s == r_s_b[2]
        b == r_s_b[3]
        rank_r == r_fwd - l_fwd - s - b + rank_l
        l_fwd_res == IF whole THEN c_begin ELSE c_begin + rank_l
        r_fwd_res == IF whole THEN csa.C[c + 1] - 1 ELSE c_begin + rank_r
        l_bwd_res == IF whole THEN c_begin ELSE l_bwd + s
        r_bwd_res == IF whole THEN r_fwd_res ELSE r_bwd - b
    IN  [ok |-> r_fwd_res >= l_fwd_res,
         l_fwd |-> l_fwd_res, r_fwd |-> r_fwd_res,
         l_bwd |-> l_bwd_res, r_bwd |-> r_bwd_res]

\* Mutant of bidirectional_search_cycle: the right border of the mirror
\* interval lacks its + 1.
bidirectional_search_cycle_short(csa, l_fwd, r_fwd, l_bwd, r_bwd, c) ==
    LET c_begin == csa.C[c]
        r_s_b == lex_count(csa, l_fwd, r_fwd + 1, c)
        rank_l == r_s_b[1]
        s == r_s_b[2]
        b == r_s_b[3]
        rank_r == r_fwd - l_fwd - s - b + rank_l
    IN  [ok |-> c_begin + rank_r >= c_begin + rank_l,
         l_fwd |-> c_begin + rank_l, r_fwd |-> c_begin + rank_r,
         l_bwd |-> r_bwd + 1, r_bwd |-> r_bwd + rank_r - rank_l]

\* bi_fm_index_iterator::bidirectional_search_cycle: (l_fwd, r_fwd) is the
\* parent interval in csa, (l_bwd, r_bwd) the current interval in the mirror.
bidirectional_search_cycle(csa, l_fwd, r_fwd, l_bwd, r_bwd, c) ==
    LET c_begin == csa.C[c]
        r_s_b == lex_count(csa, l_fwd, r_fwd + 1, c)
        rank_l == r_s_b[1]
        s == r_s_b[2]
        b == r_s_b[3]
        rank_r == r_fwd - l_fwd - s - b + rank_l
        l_fwd_res == c_begin + rank_l
        r_fwd_res == c_begin + rank_r
        l_bwd_res == r_bwd + 1
        r_bwd_res == r_bwd + 1 + rank_r - rank_l
    IN  [ok |-> r_fwd_res >= l_fwd_res,
         l_fwd |-> l_fwd_res, r_fwd |-> r_fwd_res,
         l_bwd |-> l_bwd_res, r_bwd |-> r_bwd_res]

\* bi_fm_index_iterator(index).  m_parent_lb, m_parent_rb and m_last_char are
\* not initialised.  parent_of names the index whose interval m_parent_*
\* holds ("only stored for the iterator that has been used last to go down
\* an edge"): it is a tag of the stored value, not a member.
bi_root(index, g1, g2, g3) ==
    [fwd_lb |-> 0, fwd_rb |-> index.fwd_fm.size - 1,
     rev_lb |-> 0, rev_rb |-> index.fwd_fm.size - 1,
     parent_lb |-> g1, parent_rb |-> g2, last_char |-> g3,
     depth |-> 0, fwd_iter_last_used |-> FALSE, parent_of |-> "none"]

\* The while loop of extend_right() / extend_left(): smallest c in
\* [c, sigma) whose bidirectional search succeeds, or sigma.
RECURSIVE bi_scan(_, _, _, _, _, _)
bi_scan(csa, l_fwd, r_fwd, l_bwd, r_bwd, c) ==
    IF c < csa.sigma /\ ~bidirectional_search(csa, l_fwd, r_fwd, l_bwd, r_bwd, c).ok
    THEN bi_scan(csa, l_fwd, r_fwd, l_bwd, r_bwd, c + 1)
    ELSE c

\* The while loop of cycle_back() / cycle_front().
RECURSIVE bi_scan_cycle(_, _, _, _, _, _)
bi_scan_cycle(csa, l_fwd, r_fwd, l_bwd, r_bwd, c) ==
    IF c < csa.sigma
       /\ ~bidirectional_search_cycle(csa, l_fwd, r_fwd, l_bwd, r_bwd, c).ok
    THEN bi_scan_cycle(csa, l_fwd, r_fwd, l_bwd, r_bwd, c + 1)
    ELSE c

\* bi_fm_index_iterator::extend_right()
bi_extend_right(index, it) ==
    LET csa == index.fwd_fm
        used == [it EXCEPT !.fwd_iter_last_used = TRUE]
        c == bi_scan(csa, it.fwd_lb, it.fwd_rb, it.rev_lb, it.rev_rb, 1)
    IN  IF c # csa.sigma
        THEN LET res == bidirectional_search(csa, it.fwd_lb, it.fwd_rb,
                                             it.rev_lb, it.rev_rb, c)
             IN  [ok |-> TRUE,
                  it |-> [used EXCEPT !.parent_lb = it.fwd_lb,
                                      !.parent_rb = it.fwd_rb,
                                      !.parent_of = "fwd",
                                      !.fwd_lb = res.l_fwd, !.fwd_rb = res.r_fwd,
                                      !.rev_lb = res.l_bwd, !.rev_rb = res.r_bwd,
                                      !.last_char = c, !.depth = it.depth + 1]]
        ELSE [ok |-> FALSE, it |-> used]

\* bi_fm_index_iterator::extend_left()
bi_extend_left(index, it) ==
    LET csa == index.rev_fm
        used == [it EXCEPT !.fwd_iter_last_used = FALSE]
        c == bi_scan(csa, it.rev_lb, it.rev_rb, it.fwd_lb, it.fwd_rb, 1)
    IN  IF c # csa.sigma
        THEN LET res == bidirectional_search(csa, it.rev_lb, it.rev_rb,
                                             it.fwd_lb, it.fwd_rb, c)
             IN  [ok |-> TRUE,
                  it |-> [used EXCEPT !.parent_lb = it.rev_lb,
                                      !.parent_rb = it.rev_rb,
                                      !.parent_of = "rev",
                                      !.fwd_lb = res.l_bwd, !.fwd_rb = res.r_bwd,
                                      !.rev_lb = res.l_fwd, !.rev_rb = res.r_fwd,
                                      !.last_char = c, !.depth = it.depth + 1]]
        ELSE [ok |-> FALSE, it |-> used]

\* bi_fm_index_iterator::extend_right(char_t c); chr is the rank of c.
bi_extend_right_char(index, it, chr) ==
    LET csa == index.fwd_fm
        used == [it EXCEPT !.fwd_iter_last_used = TRUE]
        c_char == chr + 1
        res == bidirectional_search(csa, it.fwd_lb, it.fwd_rb,
                                    it.rev_lb, it.rev_rb, c_char)
    IN  IF res.ok
        THEN [ok |-> TRUE,
              it |-> [used EXCEPT !.parent_lb = it.fwd_lb,
                                  !.parent_rb = it.fwd_rb,
                                  !.parent_of = "fwd",
                                  !.fwd_lb = res.l_fwd, !.fwd_rb = res.r_fwd,
                                  !.rev_lb = res.l_bwd, !.rev_rb = res.r_bwd,
                                  !.last_char = c_char, !.depth = it.depth + 1]]
        ELSE [ok |-> FALSE, it |-> used]

\* bi_fm_index_iterator::extend_left(char_t c)
bi_extend_left_char(index, it, chr) ==
    LET csa == index.rev_fm
        used == [it EXCEPT !.fwd_iter_last_used = FALSE]
        c_char == chr + 1
        res == bidirectional_search(csa, it.rev_lb, it.rev_rb,
                                    it.fwd_lb, it.fwd_rb, c_char)
    IN  IF res.ok
        THEN [ok |-> TRUE,
              it |-> [used EXCEPT !.parent_lb = it.rev_lb,
                                  !.parent_rb = it.rev_rb,
                                  !.parent_of = "rev",
                                  !.fwd_lb = res.l_bwd, !.fwd_rb = res.r_bwd,
                                  !.rev_lb = res.l_fwd, !.rev_rb = res.r_fwd,
                                  !.last_char = c_char, !.depth = it.depth + 1]]
        ELSE [ok |-> FALSE, it |-> used]

\* The for loop of extend_right(seq) / extend_left(seq) from symbol i on:
\* (l, r) is the interval in csa, (lm, rm) the one in the mirror index.  The
\* symbols are taken in the order of seq, first to last.
RECURSIVE bi_seq_loop(_, _, _, _, _, _, _)
bi_seq_loop(csa, seq, i, l, r, lm, rm) ==
    LET res == bidirectional_search(csa, l, r, lm, rm, seq[i] + 1)
    IN  IF ~res.ok THEN [ok |-> FALSE]
        ELSE IF i = Len(seq)
        THEN [ok |-> TRUE, l_fwd |-> res.l_fwd, r_fwd |-> res.r_fwd,
              l_bwd |-> res.l_bwd, r_bwd |-> res.r_bwd,
              parent_lb |-> l, parent_rb |-> r]
        ELSE bi_seq_loop(csa, seq, i + 1, res.l_fwd, res.r_fwd,
                         res.l_bwd, res.r_bwd)

\* bi_fm_index_iterator::extend_right(seq); seq is not empty.
bi_extend_right_seq(index, it, seq) ==
    LET used == [it EXCEPT !.fwd_iter_last_used = TRUE]
        res == bi_seq_loop(index.fwd_fm, seq, 1, it.fwd_lb, it.fwd_rb,
                           it.rev_lb, it.rev_rb)
    IN  IF res.ok
        THEN [ok |-> TRUE,
              it |-> [used EXCEPT !.fwd_lb = res.l_fwd, !.fwd_rb = res.r_fwd,
                                  !.rev_lb = res.l_bwd, !.rev_rb = res.r_bwd,
                                  !.parent_lb = res.parent_lb,
                                  !.parent_rb = res.parent_rb,
                                  !.parent_of = "fwd",
                                  !.last_char = seq[Len(seq)] + 1,
                                  !.depth = it.depth + Len(seq)]]
        ELSE [ok |-> FALSE, it |-> used]

\* bi_fm_index_iterator::extend_left(seq); seq is not empty.
bi_extend_left_seq(index, it, seq) ==
    LET used == [it EXCEPT !.fwd_iter_last_used = FALSE]
        res == bi_seq_loop(index.rev_fm, seq, 1, it.rev_lb, it.rev_rb,
                           it.fwd_lb, it.fwd_rb)
    IN  IF res.ok
        THEN [ok |-> TRUE,
              it |-> [used EXCEPT !.fwd_lb = res.l_bwd, !.fwd_rb = res.r_bwd,
                                  !.rev_lb = res.l_fwd, !.rev_rb = res.r_fwd,
                                  !.parent_lb = res.parent_lb,
                                  !.parent_rb = res.parent_rb,
                                  !.parent_of = "rev",
                                  !.last_char = seq[Len(seq)] + 1,
                                  !.depth = it.depth + Len(seq)]]
        ELSE [ok |-> FALSE, it |-> used]

\* bi_fm_index_iterator::cycle_back(); asserts fwd_iter_last_used, depth > 0.
bi_cycle_back(index, it) ==
    LET csa == index.fwd_fm
        c == bi_scan_cycle(csa, it.parent_lb, it.parent_rb,
                           it.rev_lb, it.rev_rb, it.last_char + 1)
    IN  IF c # csa.sigma
        THEN LET res == bidirectional_search_cycle(csa, it.parent_lb,
                            it.parent_rb, it.rev_lb, it.rev_rb, c)
             IN  [ok |-> TRUE,
                  it |-> [it EXCEPT !.fwd_lb = res.l_fwd, !.fwd_rb = res.r_fwd,
                                    !.rev_lb = res.l_bwd, !.rev_rb = res.r_bwd,
                                    !.last_char = c]]
        ELSE [ok |-> FALSE, it |-> it]

\* Mutant of bi_cycle_front: the scan starts at last_char, not last_char + 1.
bi_cycle_front_same_char(index, it) ==
    LET csa == index.rev_fm
        c == bi_scan_cycle(csa, it.parent_lb, it.parent_rb,
                           it.fwd_lb, it.fwd_rb, it.last_char)
    IN  IF c # csa.sigma
        THEN LET res == bidirectional_search_cycle(csa, it.parent_lb,
                            it.parent_rb, it.fwd_lb, it.fwd_rb, c)
             IN  [ok |-> TRUE,
                  it |-> [it EXCEPT !.fwd_lb = res.l_bwd, !.fwd_rb = res.r_bwd,
                                    !.rev_lb = res.l_fwd, !.rev_rb = res.r_fwd,
                                    !.last_char = c]]
        ELSE [ok |-> FALSE, it |-> it]

\* bi_fm_index_iterator::cycle_front(); asserts !fwd_iter_last_used, depth > 0.
bi_cycle_front(index, it) ==
    LET csa == index.rev_fm
        c == bi_scan_cycle(csa, it.parent_lb, it.parent_rb,
                           it.fwd_lb, it.fwd_rb, it.last_char + 1)
    IN  IF c # csa.sigma
        THEN LET res == bidirectional_search_cycle(csa, it.parent_lb,
                            it.parent_rb, it.fwd_lb, it.fwd_rb, c)
             IN  [ok |-> TRUE,
                  it |-> [it EXCEPT !.fwd_lb = res.l_bwd, !.fwd_rb = res.r_bwd,
                                    !.rev_lb = res.l_fwd, !.rev_rb = res.r_fwd,
                                    !.last_char = c]]
        ELSE [ok |-> FALSE, it |-> it]

\* bi_fm_index_iterator::operator==
bi_equal(a, b) ==
    /\ a.fwd_lb = b.fwd_lb
    /\ a.fwd_rb = b.fwd_rb
    /\ a.depth = b.depth

\* The assertion of bi_fm_index_iterator::operator== ("equal SA range
\* implies equal parent node information (or both are root nodes)").
bi_equal_assert(a, b) ==
    \/ ~bi_equal(a, b)
    \/ a.depth = 0
    \/ /\ a.parent_lb = b.parent_lb
       /\ a.parent_rb = b.parent_rb
       /\ a.last_char = b.last_char

\* bi_fm_index_iterator::last_char()
bi_last_char(it) == it.last_char - 1

\* bi_fm_index_iterator::query_length()
bi_query_length(it) == it.depth

\* bi_fm_index_iterator::offset()
bi_offset(index, it) == index.fwd_fm.size - bi_query_length(it) - 1

\* bi_fm_index_iterator::count()
bi_count(it) == 1 + it.fwd_rb - it.fwd_lb

\* bi_fm_index_iterator::locate()
bi_locate(index, it) ==
    [i \in 1 .. bi_count(it) |->
        bi_offset(index, it) - index.fwd_fm.sa[it.fwd_lb + i]]

\* bi_fm_index_iterator::query()
bi_query(index, text, it) ==
    LET query_begin == bi_offset(index, it) - index.fwd_fm.sa[it.fwd_lb + 1]
    IN  Slice(text, query_begin, query_begin + bi_query_length(it))

\* bi_fm_index_iterator::get_fwd_iterator(), debug build: the cursor on
\* fwd_fm with the forward interval; the parent interval is copied, and made
\* empty if the last extend_* call was to the left.
bi_get_fwd_iterator(it) ==
    [lb |-> it.fwd_lb, rb |-> it.fwd_rb, depth |-> it.depth,
     last_char |-> it.last_char,
     parent_lb |-> IF ~it.fwd_iter_last_used THEN 1 ELSE it.parent_lb,
     parent_rb |-> IF ~it.fwd_iter_last_used THEN 0 ELSE it.parent_rb]

\* bi_fm_index_iterator::get_rev_iterator(), debug build: the cursor on
\* rev_fm with the reverse interval.
bi_get_rev_iterator(it) ==
    [lb |-> it.rev_lb, rb |-> it.rev_rb, depth |-> it.depth,
     last_char |-> it.last_char,
     parent_lb |-> IF it.fwd_iter_last_used THEN 1 ELSE it.parent_lb,
     parent_rb |-> IF it.fwd_iter_last_used THEN 0 ELSE it.parent_rb]

\* ------------------------------------------------------------ search drivers

\* Arithmetic on uint8_t values.
U8(x) == x % 256

\* What undefined behaviour may produce: `read` is the symbol found by a read
\* outside the query, `flag` the truth value found where none was computed
\* (an index outside search.pi, a bool function left without return).
UndefinedOutcomes == [read : Ranks, flag : BOOLEAN]

\* query[i] for a 0-based i; outside the query the read is undefined.
QueryAt(query, i, ub) ==
    IF i >= 0 /\ i < Len(query) THEN query[i + 1] ELSE ub.read

\* search.pi[i] > search.pi[j] for 0-based i, j; undefined outside pi.
PiGreater(search, i, j, ub) ==
    IF i >= 0 /\ i < Len(search.pi) /\ j >= 0 /\ j < Len(search.pi)
    THEN search.pi[i + 1] > search.pi[j + 1]
    ELSE ub.flag

\* detail::optimum_search_scheme<min_errors, max_errors>::value
optimum_search_scheme(min_errors, max_errors) ==
    CASE min_errors = 0 /\ max_errors = 0 ->
            << [pi |-> <<2, 1, 3>>, l |-> <<0, 0, 0>>, u |-> <<0, 0, 0>>] >>
      [] min_errors = 0 /\ max_errors = 1 ->
            << [pi |-> <<1, 2>>, l |-> <<0, 0>>, u |-> <<0, 1>>],
               [pi |-> <<2, 1>>, l |-> <<0, 1>>, u |-> <<0, 1>>] >>
      [] min_errors = 1 /\ max_errors = 1 ->
            << [pi |-> <<1, 2>>, l |-> <<0, 1>>, u |-> <<0, 1>>],
               [pi |-> <<2, 1>>, l |-> <<0, 1>>, u |-> <<0, 1>>] >>
      [] min_errors = 0 /\ max_errors = 2 ->
            << [pi |-> <<1, 2, 3, 4>>, l |-> <<0, 0, 1, 1>>, u |-> <<0, 0, 2, 2>>],
               [pi |-> <<3, 2, 1, 4>>, l |-> <<0, 0, 0, 0>>, u |-> <<0, 1, 1, 2>>],
               [pi |-> <<4, 3, 2, 1>>, l |-> <<0, 0, 0, 2>>, u |-> <<0, 1, 2, 2>>] >>
      [] min_errors = 0 /\ max_errors = 3 ->
            << [pi |-> <<1, 2, 3, 4, 5>>, l |-> <<0, 0, 0, 0, 3>>, u |-> <<0, 2, 2, 3, 3>>],
               [pi |-> <<2, 3, 4, 5, 1>>, l |-> <<0, 0, 0, 2, 2>>, u |-> <<0, 1, 2, 2, 3>>],
               [pi |-> <<3, 4, 5, 2, 1>>, l |-> <<0, 0, 1, 1, 1>>, u |-> <<0, 1, 1, 2, 3>>],
               [pi |-> <<5, 4, 3, 2, 1>>, l |-> <<0, 0, 0, 0, 0>>, u |-> <<0, 0, 3, 3, 3>>] >>

\* detail::compute_search_scheme: one search with a single block.
compute_search_scheme(min_error, max_error) ==
    << [pi |-> <<1>>, l |-> <<min_error>>, u |-> <<max_error>>] >>

\* The cumulative block lengths of one search, up to its i-th block (1-based).
RECURSIVE CumulativeBlocklength(_, _, _)
CumulativeBlocklength(blocklengths, pi, i) ==
    IF i = 0 THEN 0
    ELSE blocklengths[pi[i]] + CumulativeBlocklength(blocklengths, pi, i - 1)

\* Mutant of StartPos: the blocks right of the first one are summed.
RECURSIVE StartPosOfLarger(_, _, _)
StartPosOfLarger(blocklengths, pi, i) ==
    IF i <= 1 THEN 0
    ELSE (IF pi[i] > pi[1] THEN blocklengths[pi[i]] ELSE 0)
         + StartPosOfLarger(blocklengths, pi, i - 1)

\* The start position of one search: the lengths of the blocks left of the
\* first one, summed over blocks 2 .. i of the search.
RECURSIVE StartPos(_, _, _)
StartPos(blocklengths, pi, i) ==
    IF i <= 1 THEN 0
    ELSE (IF pi[i] < pi[1] THEN blocklengths[pi[i]] ELSE 0)
         + StartPos(blocklengths, pi, i - 1)

\* detail::search_scheme_block_info: per search the cumulative block lengths
\* in the order of the search, and the start position.
search_scheme_block_info(search_scheme, query_length) ==
    LET blocks == Len(search_scheme[1].pi)
        blocklength == query_length \div blocks
        rest == U8(query_length - blocks * blocklength)
        blocklengths == [b \in 1 .. blocks |->
                            IF b - 1 < rest THEN blocklength + 1 ELSE blocklength]
    IN  [search_id \in 1 .. Len(search_scheme) |->
            LET pi == search_scheme[search_id].pi
            IN  [blocklength |-> [i \in 1 .. blocks |->
                                     CumulativeBlocklength(blocklengths, pi, i)],
                 start_pos |-> StartPos(blocklengths, pi, blocks)]]

\* A driver call returns ret and, in hits, the cursors handed to the
\* delegate, in call order; out_of_range tells whether the call has read
\* the query or the arrays of the search outside their bounds or has moved
\* the covered range outside [0, |query| + 1].  env holds what the recursion passes on
\* unchanged: index, query, search, blocklength, abort_on_hit, and ub, the
\* outcome of undefined behaviour.
NoHit == [ret |-> FALSE, hits |-> << >>, out_of_range |-> FALSE]

\* `if (first && abort_on_hit) return true;` followed by rest.
Then(abort_on_hit, first, rest) ==
    IF abort_on_hit /\ first.ret
    THEN [ret |-> TRUE, hits |-> first.hits,
          out_of_range |-> first.out_of_range]
    ELSE [ret |-> rest.ret, hits |-> first.hits \o rest.hits,
          out_of_range |-> first.out_of_range \/ rest.out_of_range]

\* `if (call && abort_on_hit) return true; return false;`
AbortOnly(abort_on_hit, call) ==
    [ret |-> abort_on_hit /\ call.ret, hits |-> call.hits,
     out_of_range |-> call.out_of_range]

\* A call made by code that has made an access outside the bounds when
\* `outside` holds.
Access(outside, call) == [call EXCEPT !.out_of_range = @ \/ outside]

\* query[i] for a 0-based i is a read outside the query.
QueryOutside(query, i) == ~(i >= 0 /\ i < Len(query))

\* search.pi[i] for a 0-based i is a read outside the array.
PiOutside(search, i) == ~(i >= 0 /\ i < Len(search.pi))

\* The covered range (lb, rb) has left [0, |query| + 1].
RangeOutside(query, lb, rb) == lb < 0 \/ rb > Len(query) + 1

RECURSIVE search_scheme_single_search(_, _, _, _, _, _, _, _)
RECURSIVE search_scheme_single_search_deletion(_, _, _, _, _, _, _, _)
RECURSIVE search_scheme_deletion_loop(_, _, _, _, _, _, _, _)
RECURSIVE search_scheme_children_loop(_, _, _, _, _, _, _, _, _)

\* detail::search_scheme_single_search_exact
search_scheme_single_search_exact(env, it, lb, rb, errors_spent, block_id, go_right, error_left) ==
    LET search == env.search
        blocklength == env.blocklength
        block_id2 == Min(block_id + 1, Len(search.pi) - 1)
        go_right2 == /\ block_id < Len(search.pi) - 1
                     /\ search.pi[block_id + 2] > search.pi[block_id + 1]
        infix_lb == IF go_right THEN rb - 1
                    ELSE rb - blocklength[block_id + 1] - 1
        infix_rb == IF go_right THEN lb + blocklength[block_id + 1] - 1
                    ELSE lb - 1
        infix == Slice(env.query, infix_lb, infix_rb + 1)
        ext == IF go_right THEN bi_extend_right_seq(env.index, it, infix)
               ELSE bi_extend_left_seq(env.index, it, infix)
    IN  Access(\/ infix_lb < 0
                   \/ infix_rb + 1 > Len(env.query)
                   \/ PiOutside(search, block_id),
               IF ~ext.ok THEN NoHit
               ELSE Access(RangeOutside(env.query,
                               IF go_right THEN lb ELSE infix_lb,
                               IF go_right THEN infix_rb + 2 ELSE rb),
                        AbortOnly(env.abort_on_hit,
                            search_scheme_single_search(env, ext.it,
                                IF go_right THEN lb ELSE infix_lb,
                                IF go_right THEN infix_rb + 2 ELSE rb,
                                errors_spent, block_id2, go_right2,
                                error_left))))

\* The do-while loop of search_scheme_single_search_deletion; it is the
\* current sibling, error_left2 the budget after the deletion.
search_scheme_deletion_loop(env, it, lb, rb, errors_spent, block_id, go_right, error_left2) ==
    LET cyc == IF go_right THEN bi_cycle_back(env.index, it)
               ELSE bi_cycle_front(env.index, it)
    IN  Then(env.abort_on_hit,
             search_scheme_single_search_deletion(env, it, lb, rb,
                 U8(errors_spent + 1), block_id, go_right, error_left2),
             IF cyc.ok
             THEN search_scheme_deletion_loop(env, cyc.it, lb, rb,
                      errors_spent, block_id, go_right, error_left2)
             ELSE NoHit)

\* detail::search_scheme_single_search_deletion
search_scheme_single_search_deletion(env, it, lb, rb, errors_spent, block_id, go_right, error_left) ==
    LET search == env.search
        max_errors_left_in_block == U8(search.u[block_id + 1] - errors_spent)
        min_errors_left_in_block == Max(search.l[block_id + 1] - errors_spent, 0)
        block_id2 == Min(block_id + 1, Len(search.pi) - 1)
        go_right2 == PiGreater(search, block_id2, block_id2 - 1, env.ub)
        ext == IF go_right THEN bi_extend_right(env.index, it)
               ELSE bi_extend_left(env.index, it)
        error_left2 == [error_left EXCEPT !.total = U8(@ - 1),
                                          !.deletion = U8(@ - 1)]
    IN  Then(env.abort_on_hit,
             IF min_errors_left_in_block = 0
             THEN Access(PiOutside(search, block_id2 - 1),
                      search_scheme_single_search(env, it, lb, rb,
                          errors_spent, block_id2, go_right2, error_left))
             ELSE NoHit,
             IF /\ ~(search.pi[block_id + 1] = 1 /\ ~go_right)
                /\ max_errors_left_in_block > 0
                /\ error_left.total > 0
                /\ error_left.deletion > 0
                /\ ext.ok
             THEN search_scheme_deletion_loop(env, ext.it, lb, rb,
                      errors_spent, block_id, go_right, error_left2)
             ELSE NoHit)

\* The do-while loop of search_scheme_single_search_children; it is the
\* current sibling.  skip is the `continue`.
search_scheme_children_loop(env, it, lb, rb, errors_spent, block_id, go_right, min_errors_left_in_block, error_left) ==
    LET search == env.search
        blocklength == env.blocklength
        chars_left == blocklength[block_id + 1] - (rb - lb - 1)
        lb2 == IF go_right THEN lb ELSE lb - 1
        rb2 == IF go_right THEN rb + 1 ELSE rb
        delta == IF bi_last_char(it)
                      # QueryAt(env.query, (IF go_right THEN rb ELSE lb) - 1, env.ub)
                 THEN 1 ELSE 0
        skip == /\ ~(error_left.deletion > 0)
                /\ min_errors_left_in_block > 0
                /\ chars_left + delta < min_errors_left_in_block + 1
        error_left2 == [error_left EXCEPT !.total = U8(@ - delta),
                                          !.substitution = U8(@ - delta)]
        block_complete == (rb - lb = blocklength[block_id + 1])
        block_id2 == Min(block_id + 1, Len(search.pi) - 1)
        go_right2 == PiGreater(search, block_id2, block_id2 - 1, env.ub)
        error_left3 == [error_left EXCEPT !.total = U8(@ - 1),
                                          !.deletion = U8(@ - 1)]
        cyc == IF go_right THEN bi_cycle_back(env.index, it)
               ELSE bi_cycle_front(env.index, it)
    IN  Then(env.abort_on_hit,
             Access(QueryOutside(env.query,
                        (IF go_right THEN rb ELSE lb) - 1),
                 IF skip \/ ~(delta = 0 \/ error_left.substitution > 0)
                 THEN NoHit
                 ELSE Access(RangeOutside(env.query, lb2, rb2),
                          IF block_complete /\ error_left.deletion > 0
                          THEN search_scheme_single_search_deletion(env, it,
                                   lb2, rb2, U8(errors_spent + delta),
                                   block_id, go_right, error_left2)
                          ELSE Access(block_complete
                                          /\ PiOutside(search, block_id2 - 1),
                                   search_scheme_single_search(env, it, lb2,
                                       rb2, U8(errors_spent + delta),
                                       IF block_complete THEN block_id2
                                       ELSE block_id,
                                       IF block_complete THEN go_right2
                                       ELSE go_right,
                                       error_left2)))),
             Then(FALSE,
                  IF ~skip /\ error_left.deletion > 0
                  THEN search_scheme_single_search(env, it, lb, rb,
                           U8(errors_spent + 1), block_id, go_right,
                           error_left3)
                  ELSE NoHit,
                  IF cyc.ok
                  THEN search_scheme_children_loop(env, cyc.it, lb, rb,
                           errors_spent, block_id, go_right,
                           min_errors_left_in_block, error_left)
                  ELSE NoHit))

\* detail::search_scheme_single_search_children
search_scheme_single_search_children(env, it, lb, rb, errors_spent, block_id, go_right, min_errors_left_in_block, error_left) ==
    LET ext == IF go_right THEN bi_extend_right(env.index, it)
               ELSE bi_extend_left(env.index, it)
    IN  IF ext.ok
        THEN search_scheme_children_loop(env, ext.it, lb, rb, errors_spent,
                 block_id, go_right, min_errors_left_in_block, error_left)
        ELSE NoHit

\* detail::search_scheme_single_search.  The statement after the exact
\* search is `if (...); return true;`, so that branch always returns true.
search_scheme_single_search(env, it, lb, rb, errors_spent, block_id, go_right, error_left) ==
    LET search == env.search
        blocklength == env.blocklength
        max_errors_left_in_block == U8(search.u[block_id + 1] - errors_spent)
        min_errors_left_in_block == Max(search.l[block_id + 1] - errors_spent, 0)
        lb2 == IF go_right THEN lb ELSE lb - 1
        rb2 == IF go_right THEN rb + 1 ELSE rb
        error_left2 == [error_left EXCEPT !.total = U8(@ - 1),
                                          !.insertion = U8(@ - 1)]
    IN  IF /\ min_errors_left_in_block = 0
           /\ lb = 0
           /\ rb = Len(env.query) + 1
        THEN [ret |-> TRUE, hits |-> <<it>>, out_of_range |-> FALSE]
        ELSE IF \/ /\ max_errors_left_in_block = 0
                   /\ rb - lb - 1 # blocklength[block_id + 1]
                \/ /\ error_left.total = 0
                   /\ min_errors_left_in_block = 0
        THEN [search_scheme_single_search_exact(env, it, lb, rb, errors_spent,
                  block_id, go_right, error_left) EXCEPT !.ret = TRUE]
        ELSE IF error_left.total > 0
        THEN AbortOnly(env.abort_on_hit,
                 Then(env.abort_on_hit,
                      IF error_left.insertion = 0 THEN NoHit
                      ELSE Access(RangeOutside(env.query, lb2, rb2),
                               IF rb - lb = blocklength[block_id + 1]
                               THEN search_scheme_single_search_deletion(env,
                                        it, lb2, rb2, U8(errors_spent + 1),
                                        block_id, go_right, error_left2)
                               ELSE search_scheme_single_search(env, it, lb2,
                                        rb2, U8(errors_spent + 1), block_id,
                                        go_right, error_left2)),
                      search_scheme_single_search_children(env, it, lb, rb,
                          errors_spent, block_id, go_right,
                          min_errors_left_in_block, error_left)))
        ELSE NoHit

\* The for loop of detail::search_search_scheme from search search_id on
\* (1-based).
RECURSIVE search_scheme_loop(_, _, _, _, _, _, _, _, _)
search_scheme_loop(index, query, errors_left, search_scheme, block_info, abort_on_hit, root, ub, search_id) ==
    IF search_id > Len(search_scheme) THEN NoHit
    ELSE LET env == [index |-> index, query |-> query,
                     search |-> search_scheme[search_id],
                     blocklength |-> block_info[search_id].blocklength,
                     abort_on_hit |-> abort_on_hit, ub |-> ub]
             start_pos == block_info[search_id].start_pos
         IN  Then(abort_on_hit,
                  search_scheme_single_search(env, root, start_pos,
                      start_pos + 1, 0, 0, TRUE, errors_left),
                  search_scheme_loop(index, query, errors_left, search_scheme,
                      block_info, abort_on_hit, root, ub, search_id + 1))

\* detail::search_search_scheme; root is index.begin().  The cursors handed
\* to the delegate.
search_search_scheme(index, query, errors_left, search_scheme, abort_on_hit, root, ub) ==
    search_scheme_loop(index, query, errors_left, search_scheme,
        search_scheme_block_info(search_scheme, Len(query)),
        abort_on_hit, root, ub, 1).hits

\* Whether detail::search_search_scheme has made an access outside the
\* bounds.
search_search_scheme_out_of_range(index, query, errors_left, search_scheme, abort_on_hit, root, ub) ==
    search_scheme_loop(index, query, errors_left, search_scheme,
        search_scheme_block_info(search_scheme, Len(query)),
        abort_on_hit, root, ub, 1).out_of_range

\* ranges::view::drop_exactly(query, n)
DropExactly(query, n) == SubSeq(query, n + 1, Len(query))

\* A bool instance of _search_trivial that reaches its end without a return
\* statement yields an undefined value; the void instance yields none.
OffEnd(cfg) == [ret |-> cfg.abort_on_hit /\ cfg.ub.flag, hits |-> << >>, out_of_range |-> FALSE]

\* detail::_search_trivial<substitution, insertion, deletion, allow_insertion,
\* allow_deletion, abort_on_hit>.  cfg holds the template arguments that do
\* not change, index, query, max_errors and ub; hits are the (cursor, errors)
\* pairs handed to the delegate.
RECURSIVE _search_trivial(_, _, _, _, _, _)
RECURSIVE search_trivial_loop(_, _, _, _, _)

\* Mutant of search_trivial_loop: a mismatch is not counted as an error.
search_trivial_loop_free_mismatch(cfg, allow_deletion, it, query_pos, errors) ==
    LET cyc == bi_cycle_back(cfg.index, it)
    IN  Then(cfg.abort_on_hit,
             IF cfg.substitution
             THEN _search_trivial(cfg, TRUE, TRUE, it, query_pos + 1, errors)
             ELSE NoHit,
             Then(cfg.abort_on_hit,
                  IF cfg.deletion /\ allow_deletion
                  THEN _search_trivial(cfg, FALSE, TRUE, it, query_pos,
                           U8(errors + 1))
                  ELSE NoHit,
                  IF cyc.ok
                  THEN search_trivial_loop(cfg, allow_deletion, cyc.it,
                           query_pos, errors)
                  ELSE OffEnd(cfg)))

\* The do-while loop over the siblings in _search_trivial; it is the current
\* sibling.
search_trivial_loop(cfg, allow_deletion, it, query_pos, errors) ==
    LET delta == IF bi_last_char(it) # cfg.query[query_pos + 1] THEN 1 ELSE 0
        cyc == bi_cycle_back(cfg.index, it)
    IN  Then(cfg.abort_on_hit,
             IF cfg.substitution
             THEN _search_trivial(cfg, TRUE, TRUE, it, query_pos + 1,
                      U8(errors + delta))
             ELSE NoHit,
             Then(cfg.abort_on_hit,
                  IF cfg.deletion /\ allow_deletion
                  THEN _search_trivial(cfg, FALSE, TRUE, it, query_pos,
                           U8(errors + 1))
                  ELSE NoHit,
                  IF cyc.ok
                  THEN search_trivial_loop(cfg, allow_deletion, cyc.it,
                           query_pos, errors)
                  ELSE OffEnd(cfg)))

_search_trivial(cfg, allow_insertion, allow_deletion, it, query_pos, errors) ==
    LET rest == IF query_pos = Len(cfg.query) THEN [ok |-> TRUE, it |-> it]
                ELSE bi_extend_right_seq(cfg.index, it,
                         DropExactly(cfg.query, query_pos))
        down == bi_extend_right(cfg.index, it)
        match == IF query_pos = Len(cfg.query) THEN [ok |-> FALSE, it |-> it]
                 ELSE bi_extend_right_char(cfg.index, it,
                          cfg.query[query_pos + 1])
    IN  IF query_pos = Len(cfg.query) \/ errors = cfg.max_errors
        THEN IF rest.ok
             THEN [ret |-> cfg.abort_on_hit,
                   hits |-> << [it |-> rest.it, errors |-> errors] >>,
                   out_of_range |-> FALSE]
             ELSE OffEnd(cfg)
        ELSE Then(cfg.abort_on_hit,
                  IF cfg.insertion /\ allow_insertion
                  THEN _search_trivial(cfg, TRUE, FALSE, it, query_pos + 1,
                           U8(errors + 1))
                  ELSE NoHit,
                  IF cfg.deletion \/ cfg.substitution
                  THEN IF down.ok
                       THEN search_trivial_loop(cfg, allow_deletion, down.it,
                                query_pos, errors)
                       ELSE OffEnd(cfg)
                  ELSE Then(cfg.abort_on_hit,
                            IF match.ok
                            THEN _search_trivial(cfg, TRUE, TRUE, match.it,
                                     query_pos + 1, errors)
                            ELSE NoHit,
                            OffEnd(cfg)))

\* detail::search_trivial<substitution, insertion, deletion, abort_on_hit>;
\* root is index.begin().  The hits handed to the delegate.
search_trivial(index, query, max_errors, substitution, insertion, deletion, abort_on_hit, root, ub) ==
    _search_trivial([index |-> index, query |-> query,
                     max_errors |-> max_errors, substitution |-> substitution,
                     insertion |-> insertion, deletion |-> deletion,
                     abort_on_hit |-> abort_on_hit, ub |-> ub],
                    TRUE, FALSE, root, 0, 0).hits

\* ------------------------------------- the edit sequences of the driver

\* The calls of _search_trivial<.., false> made below one call, each named
\* by the operations that lead to it: "insertion" (a symbol of the query is
\* skipped), "deletion" (a symbol of the text is skipped), "substitution"
\* and "match".  edits names the call itself.
RECURSIVE explored_edits(_, _, _, _, _, _, _)
RECURSIVE explored_edits_loop(_, _, _, _, _, _)

\* Mutant of explored_edits_loop: allow_deletion is not tested.
explored_edits_loop_any_deletion(cfg, allow_deletion, it, query_pos, errors, edits) ==
    LET delta == IF bi_last_char(it) # cfg.query[query_pos + 1] THEN 1 ELSE 0
        cyc == bi_cycle_back(cfg.index, it)
    IN  (IF cfg.substitution
         THEN explored_edits(cfg, TRUE, TRUE, it, query_pos + 1,
                  U8(errors + delta),
                  Append(edits, IF delta = 1 THEN "substitution" ELSE "match"))
         ELSE {})
        \cup (IF cfg.deletion
              THEN explored_edits(cfg, FALSE, TRUE, it, query_pos,
                       U8(errors + 1), Append(edits, "deletion"))
              ELSE {})
        \cup (IF cyc.ok
              THEN explored_edits_loop(cfg, allow_deletion, cyc.it, query_pos,
                       errors, edits)
              ELSE {})

\* The do-while loop over the siblings; it is the current sibling.
explored_edits_loop(cfg, allow_deletion, it, query_pos, errors, edits) ==
    LET delta == IF bi_last_char(it) # cfg.query[query_pos + 1] THEN 1 ELSE 0
        cyc == bi_cycle_back(cfg.index, it)
    IN  (IF cfg.substitution
         THEN explored_edits(cfg, TRUE, TRUE, it, query_pos + 1,
                  U8(errors + delta),
                  Append(edits, IF delta = 1 THEN "substitution" ELSE "match"))
         ELSE {})
        \cup (IF cfg.deletion /\ allow_deletion
              THEN explored_edits(cfg, FALSE, TRUE, it, query_pos,
                       U8(errors + 1), Append(edits, "deletion"))
              ELSE {})
        \cup (IF cyc.ok
              THEN explored_edits_loop(cfg, allow_deletion, cyc.it, query_pos,
                       errors, edits)
              ELSE {})

explored_edits(cfg, allow_insertion, allow_deletion, it, query_pos, errors, edits) ==
    LET down == bi_extend_right(cfg.index, it)
        match == IF query_pos = Len(cfg.query) THEN [ok |-> FALSE, it |-> it]
                 ELSE bi_extend_right_char(cfg.index, it,
                          cfg.query[query_pos + 1])
    IN  {edits} \cup
        IF query_pos = Len(cfg.query) \/ errors = cfg.max_errors THEN {}
        ELSE (IF cfg.insertion /\ allow_insertion
              THEN explored_edits(cfg, TRUE, FALSE, it, query_pos + 1,
                       U8(errors + 1), Append(edits, "insertion"))
              ELSE {})
             \cup (IF cfg.deletion \/ cfg.substitution
                   THEN IF down.ok
                        THEN explored_edits_loop(cfg, allow_deletion, down.it,
                                 query_pos, errors, edits)
                        ELSE {}
                   ELSE IF match.ok
                        THEN explored_edits(cfg, TRUE, TRUE, match.it,
                                 query_pos + 1, errors, Append(edits, "match"))
                        ELSE {})

\* The calls made by detail::search_trivial<substitution, insertion,
\* deletion, false>; root is index.begin().
search_trivial_edits(index, query, max_errors, substitution, insertion, deletion, root) ==
    explored_edits([index |-> index, query |-> query,
                    max_errors |-> max_errors, substitution |-> substitution,
                    insertion |-> insertion, deletion |-> deletion],
                   TRUE, FALSE, root, 0, 0, << >>)

\* ------------------------------------------------ the facade: strategies

\* detail::search_trivial<abort_on_hit>(index, query, error_left, delegate):
\* the trivial driver run with the budget error_left.total, an edit kind
\* being enabled when its budget is positive.
search_trivial_params(index, query, error_left, abort_on_hit, root, ub) ==
    search_trivial(index, query, error_left.total, error_left.substitution > 0,
        error_left.insertion > 0, error_left.deletion > 0, abort_on_hit, root,
        ub)

\* One pass of `while (internal_hits.empty() && max_error2.total <=
\* max_error.total)` with internal_hits empty: whether the body runs, the
\* hits of the driver and max_error2.total after the increment.
raise_total_step(index, query, max_error, total, abort_on_hit, root, ub) ==
    IF total <= max_error.total
    THEN [ran |-> TRUE,
          hits |-> search_trivial_params(index, query,
                       [max_error EXCEPT !.total = total], abort_on_hit,
                       root, ub),
          total |-> U8(total + 1)]
    ELSE [ran |-> FALSE, hits |-> << >>, total |-> total]

\* The loop that raises max_error2.total from `total` until a driver run
\* has hits or the configured total is exceeded; it ends when
\* max_error.total < 255.  step is the pass that has just been made.
RECURSIVE raise_total(_, _, _, _, _, _, _)
raise_total_continue(index, query, max_error, step, abort_on_hit, root, ub) ==
    IF step.ran /\ step.hits = << >>
    THEN raise_total(index, query, max_error, step.total, abort_on_hit, root,
             ub)
    ELSE step

raise_total(index, query, max_error, total, abort_on_hit, root, ub) ==
    raise_total_continue(index, query, max_error,
        raise_total_step(index, query, max_error, total, abort_on_hit, root,
            ub),
        abort_on_hit, root, ub)

\* What follows the loop: strategy_strata searches again with s - 1 added to
\* max_error2.total when the loop has found a hit, the others keep the hits.
after_raise_total(index, query, cfg, max_error, found, root, ub) ==
    IF cfg.strategy # "strata" THEN found.hits
    ELSE IF found.hits # << >>
    THEN search_trivial_params(index, query,
             [max_error EXCEPT !.total = U8(found.total + cfg.s - 1)],
             FALSE, root, ub)
    ELSE << >>

\* _search_single, "choose strategy": the hits the internal delegate has
\* collected afterwards.  cfg.strategy is "best", "all_best", "strata" or
\* "all", cfg.s the value of strategy_strata.
choose_strategy(index, query, cfg, max_error, root, ub) ==
    IF cfg.strategy \in {"best", "all_best", "strata"}
    THEN after_raise_total(index, query, cfg, max_error,
             raise_total(index, query, max_error, 0,
                 cfg.strategy # "all_best", root, ub),
             root, ub)
    ELSE search_trivial_params(index, query, max_error, FALSE, root, ub)

\* bi_fm_index_iterator::lazy_locate()
bi_lazy_locate(index, it) ==
    [i \in 1 .. bi_count(it) |->
        bi_offset(index, it) - index.fwd_fm.sa[it.fwd_lb + i]]

\* The concatenation of it.locate() over the cursors its[from .. ].
RECURSIVE locate_all(_, _, _)
locate_all(index, its, from) ==
    IF from > Len(its) THEN << >>
    ELSE bi_locate(index, its[from]) \o locate_all(index, its, from + 1)

\* _search_single, "output iterators or text_positions"
output_hits(index, cfg, internal_hits) ==
    IF cfg.output = "index_iterator" THEN internal_hits
    ELSE IF cfg.strategy = "best"
    THEN IF internal_hits # << >>
         THEN << bi_lazy_locate(index, internal_hits[1])[1] >>
         ELSE << >>
    ELSE locate_all(index, internal_hits, 1)

\* The internal delegate keeps the cursor of every hit.
internal_hits_of(hits) == [i \in 1 .. Len(hits) |-> hits[i].it]

\* detail::_search_single with max_error as retrieved from cfg
_search_single(index, query, cfg, max_error, root, ub) ==
    output_hits(index, cfg,
        internal_hits_of(choose_strategy(index, query, cfg, max_error, root,
            ub)))

\* ------------------------------------------- backtracking on a suffix array

\* The byte stream construct_im indexes: the symbols of the text, none of
\* them 0, in text order, followed by the sentinel.
DirectText(text) ==
    [i \in 1 .. Len(text) + 1 |-> IF i = Len(text) + 1 THEN 0 ELSE text[i] + 1]

\* sdsl::backward_search(csa, l, r, begin, end, l_res, r_res): the symbols
\* pattern[1 .. last] are searched from the last to the first while the
\* interval is not empty.
RECURSIVE backward_search_range(_, _, _, _, _)
backward_search_range(csa, l, r, pattern, last) ==
    IF last = 0 \/ r + 1 - l <= 0 THEN [lb |-> l, rb |-> r]
    ELSE LET res == backward_search(csa, l, r, pattern[last])
         IN  IF res.ok
             THEN backward_search_range(csa, res.lb, res.rb, pattern, last - 1)
             ELSE [lb |-> 1, rb |-> 0]

RECURSIVE _search_backtracking(_, _, _, _, _)
RECURSIVE search_backtracking_loop(_, _, _, _, _, _)

\* The for loop over the compact codes c in _search_backtracking; cfg holds
\* cst, the pattern, params.max_errors and whether params.metric is
\* levenshtein.  The result is the list of callbacks (l, r, errors).
search_backtracking_loop(cfg, last, l_parent, r_parent, errors, c) ==
    IF c >= cfg.cst.sigma THEN << >>
    ELSE LET cc == cfg.cst.comp2char[c]
             res == backward_search(cfg.cst, l_parent, r_parent, cc)
             delta == IF cfg.pattern[last] # cc THEN 1 ELSE 0
         IN  (IF ~res.ok THEN << >>
              ELSE _search_backtracking(cfg, last - 1, res.lb, res.rb,
                       U8(errors + delta))
                   \o (IF cfg.levenshtein
                       THEN _search_backtracking(cfg, last, res.lb, res.rb,
                                U8(errors + 1))
                       ELSE << >>))
             \o search_backtracking_loop(cfg, last, l_parent, r_parent,
                    errors, c + 1)

\* detail::_search_backtracking over pattern[1 .. last]
_search_backtracking(cfg, last, l, r, errors) ==
    IF errors = cfg.max_errors
    THEN LET res == backward_search_range(cfg.cst, l, r, cfg.pattern, last)
         IN  IF res.rb + 1 - res.lb > 0
             THEN << [l |-> res.lb, r |-> res.rb, errors |-> errors] >>
             ELSE << >>
    ELSE IF last = 0
    THEN << [l |-> l, r |-> r, errors |-> errors] >>
    ELSE (IF cfg.levenshtein
          THEN _search_backtracking(cfg, last - 1, l, r, U8(errors + 1))
          ELSE << >>)
         \o search_backtracking_loop(cfg, last, l, r, errors, 1)

\* detail::search_backtracking
search_backtracking(cst, pattern, max_errors, levenshtein) ==
    _search_backtracking([cst |-> cst, pattern |-> pattern,
                          max_errors |-> max_errors,
                          levenshtein |-> levenshtein],
                         Len(pattern), 0, cst.size - 1, 0)

\* ------------------------------------------------------------ state machine

VARIABLES
    text,     \* the indexed text, a sequence of ranks
    index,    \* the index built over text: fwd_fm (also the plain fm_index
              \* of text) and rev_fm
    kind,     \* which cursor the client drives: "fm" or "bi"
    uit,      \* the unidirectional cursor
    uother,   \* a copy of the unidirectional cursor taken earlier
    it,       \* the bidirectional cursor
    other,    \* a copy of the bidirectional cursor taken earlier
    op,       \* the last operation called on the cursor
    arg,      \* its argument: <<>>, <<rank>> or the sequence
    ret,      \* its return value
    query,    \* the query of the last search, << >> before the first
    errors,   \* the error budget of the last search
    scheme_hits,   \* cursors the search-scheme driver handed to the delegate
    trivial_hits   \* (cursor, errors) pairs the trivial driver handed over

search_vars == <<query, errors, scheme_hits, trivial_hits>>

vars == <<text, index, kind, uit, uother, it, other, op, arg, ret, search_vars>>

SeqArgs == SeqsUpTo(Ranks, MaxSeqLen)

\* The state after the index over one of the given texts and a cursor at its
\* root have been constructed.
InitOver(texts) ==
    /\ text \in texts
    /\ index = bi_construct(text)
    /\ kind \in {"fm", "bi"}
    /\ \E g1 \in Uninitialised, g2 \in Uninitialised :
          /\ uit = IF kind = "fm" THEN fm_root(index.fwd_fm, g1, g2)
                   ELSE fm_root(index.fwd_fm, 0, 0)
          /\ uother = uit
    /\ \E g1 \in Uninitialised, g2 \in Uninitialised, g3 \in Uninitialised :
          /\ it = IF kind = "bi" THEN bi_root(index, g1, g2, g3)
                  ELSE bi_root(index, 0, 0, 0)
          /\ other = it
    /\ op = "root"
    /\ arg = << >>
    /\ ret = TRUE
    /\ query = << >>
    /\ errors = [total |-> 0, substitution |-> 0, insertion |-> 0, deletion |-> 0]
    /\ scheme_hits = << >>
    /\ trivial_hits = << >>

Init == InitOver(Texts)

\* The operations after which the client is not followed further: a failed
\* assertion, which aborts the program, and a cycle that ran although its
\* precondition was broken.
Stopped ==
    {"cycle_back_assert", "cycle_front_assert",
     "cycle_back_undefined", "cycle_front_undefined"}

\* The unidirectional cursor is replaced by the outcome res of operation o.
FmCall(o, a, res) ==
    /\ kind = "fm"
    /\ op \notin Stopped
    /\ uit' = res.it
    /\ op' = o
    /\ arg' = a
    /\ ret' = res.ok
    /\ UNCHANGED <<text, index, kind, uother, it, other, search_vars>>

FmExtendRight == FmCall("extend_right", << >>, fm_extend_right(index.fwd_fm, uit))

FmExtendRightChar ==
    \E c \in Ranks :
        FmCall("extend_right_char", <<c>>, fm_extend_right_char(index.fwd_fm, uit, c))

FmExtendRightSeq ==
    \E seq \in SeqArgs :
        FmCall("extend_right_seq", seq, fm_extend_right_seq(index.fwd_fm, uit, seq))

\* cycle_back() asserts query_length() > 0 && m_parent_lb <= m_parent_rb.
FmCycleBack ==
    /\ uit.depth > 0
    /\ uit.parent_lb <= uit.parent_rb
    /\ FmCall("cycle_back", << >>, fm_cycle_back(index.fwd_fm, uit))

\* index.begin(): a new cursor at the root.
FmRoot ==
    \E g1 \in Uninitialised, g2 \in Uninitialised :
        FmCall("root", << >>, [ok |-> TRUE, it |-> fm_root(index.fwd_fm, g1, g2)])

\* The copy constructor: the cursor is kept for a later comparison.
FmCopy ==
    /\ kind = "fm"
    /\ uother' = uit
    /\ op' = "copy"
    /\ arg' = << >>
    /\ ret' = TRUE
    /\ UNCHANGED <<text, index, kind, uit, it, other, search_vars>>

\* The bidirectional cursor is replaced by the outcome res of operation o.
BiCall(o, a, res) ==
    /\ kind = "bi"
    /\ op \notin Stopped
    /\ it' = res.it
    /\ op' = o
    /\ arg' = a
    /\ ret' = res.ok
    /\ UNCHANGED <<text, index, kind, uit, uother, other, search_vars>>

BiExtendRight == BiCall("extend_right", << >>, bi_extend_right(index, it))

BiExtendLeft == BiCall("extend_left", << >>, bi_extend_left(index, it))

BiExtendRightChar ==
    \E c \in Ranks :
        BiCall("extend_right_char", <<c>>, bi_extend_right_char(index, it, c))

BiExtendLeftChar ==
    \E c \in Ranks :
        BiCall("extend_left_char", <<c>>, bi_extend_left_char(index, it, c))

BiExtendRightSeq ==
    \E seq \in SeqArgs :
        BiCall("extend_right_seq", seq, bi_extend_right_seq(index, it, seq))

BiExtendLeftSeq ==
    \E seq \in SeqArgs :
        BiCall("extend_left_seq", seq, bi_extend_left_seq(index, it, seq))

\* cycle_back() asserts fwd_iter_last_used and query_length() > 0; it is
\* defined only while m_parent_* holds the parent interval of the forward
\* index, i.e. the last edge was taken to the right.
BiCycleBack ==
    /\ it.fwd_iter_last_used
    /\ it.depth > 0
    /\ it.parent_of = "fwd"
    /\ BiCall("cycle_back", << >>, bi_cycle_back(index, it))

\* cycle_front() asserts !fwd_iter_last_used and query_length() > 0.
BiCycleFront ==
    /\ ~it.fwd_iter_last_used
    /\ it.depth > 0
    /\ it.parent_of = "rev"
    /\ BiCall("cycle_front", << >>, bi_cycle_front(index, it))

\* index.begin(): a new cursor at the root.
BiRoot ==
    \E g1 \in Uninitialised, g2 \in Uninitialised, g3 \in Uninitialised :
        BiCall("root", << >>, [ok |-> TRUE, it |-> bi_root(index, g1, g2, g3)])

\* The copy constructor: the cursor is kept for a later comparison.
BiCopy ==
    /\ kind = "bi"
    /\ other' = it
    /\ op' = "copy"
    /\ arg' = << >>
    /\ ret' = TRUE
    /\ UNCHANGED <<text, index, kind, uit, uother, it, search_vars>>

Next ==
    \/ FmExtendRight
    \/ FmExtendRightChar
    \/ FmExtendRightSeq
    \/ FmCycleBack
    \/ FmRoot
    \/ BiExtendRight
    \/ BiExtendLeft
    \/ BiExtendRightChar
    \/ BiExtendLeftChar
    \/ BiExtendRightSeq
    \/ BiExtendLeftSeq
    \/ BiCycleBack
    \/ BiCycleFront
    \/ BiRoot

Spec == Init /\ [][Next]_vars

\* A client that also keeps copies of its cursor and compares them later.
\* Pairs of cursors square the state space, so the texts are shorter.
InitCompare == InitOver(SeqsUpTo(Ranks, MaxCompareTextLen))

NextCompare ==
    \/ Next
    \/ FmCopy
    \/ BiCopy

SpecCompare == InitCompare /\ [][NextCompare]_vars

\* A client that calls cycle_back() / cycle_front() without regard to their
\* precondition, in a debug build.  A failed assertion aborts the program;
\* a call that breaks the precondition and still passes the assertions runs
\* on a parent interval of the other index, and the client is not followed
\* beyond it (Stopped).
\* cycle_back(): assert(fwd_iter_last_used); assert(query_length() > 0);
\* then the body.
BiCycleBackCall ==
    IF ~(it.fwd_iter_last_used /\ it.depth > 0)
    THEN BiCall("cycle_back_assert", << >>, [ok |-> FALSE, it |-> it])
    ELSE IF it.parent_of = "fwd"
    THEN BiCall("cycle_back", << >>, bi_cycle_back(index, it))
    ELSE BiCall("cycle_back_undefined", << >>, bi_cycle_back(index, it))

\* cycle_front(): assert(!fwd_iter_last_used); assert(query_length() > 0);
\* then the body.
BiCycleFrontCall ==
    IF ~(~it.fwd_iter_last_used /\ it.depth > 0)
    THEN BiCall("cycle_front_assert", << >>, [ok |-> FALSE, it |-> it])
    ELSE IF it.parent_of = "rev"
    THEN BiCall("cycle_front", << >>, bi_cycle_front(index, it))
    ELSE BiCall("cycle_front_undefined", << >>, bi_cycle_front(index, it))

NextAssert ==
    \/ Next
    \/ BiCycleBackCall
    \/ BiCycleFrontCall

SpecAssert == Init /\ [][NextAssert]_vars

\* A client that projects its bidirectional cursor to a unidirectional one
\* and goes on with the projection, in a debug build.  kind becomes
\* "fwd_proj" or "rev_proj", uit is the projection, and it keeps the
\* bidirectional cursor the projection was taken from.
ProjKinds == {"fwd_proj", "rev_proj"}

\* The index the projection works on.
ProjCsa == IF kind = "rev_proj" THEN index.rev_fm ELSE index.fwd_fm

\* m_parent_* of the projection holds the parent interval in the projection's
\* own index: it was copied from an extension in that direction, or the
\* projection has been extended since.
ProjParentValid ==
    \/ uit.depth > it.depth
    \/ (kind = "fwd_proj" /\ it.parent_of = "fwd")
    \/ (kind = "rev_proj" /\ it.parent_of = "rev")

BiGetFwdIterator ==
    /\ kind = "bi"
    /\ op \notin Stopped
    /\ kind' = "fwd_proj"
    /\ uit' = bi_get_fwd_iterator(it)
    /\ op' = "get_fwd_iterator"
    /\ arg' = << >>
    /\ ret' = TRUE
    /\ UNCHANGED <<text, index, uother, it, other, search_vars>>

BiGetRevIterator ==
    /\ kind = "bi"
    /\ op \notin Stopped
    /\ kind' = "rev_proj"
    /\ uit' = bi_get_rev_iterator(it)
    /\ op' = "get_rev_iterator"
    /\ arg' = << >>
    /\ ret' = TRUE
    /\ UNCHANGED <<text, index, uother, it, other, search_vars>>

\* The projection is replaced by the outcome res of operation o.
ProjCall(o, a, res) ==
    /\ kind \in ProjKinds
    /\ op \notin Stopped
    /\ uit' = res.it
    /\ op' = o
    /\ arg' = a
    /\ ret' = res.ok
    /\ UNCHANGED <<text, index, kind, uother, it, other, search_vars>>

ProjExtendRight == ProjCall("extend_right", << >>, fm_extend_right(ProjCsa, uit))

ProjExtendRightChar ==
    \E c \in Ranks :
        ProjCall("extend_right_char", <<c>>, fm_extend_right_char(ProjCsa, uit, c))

ProjExtendRightSeq ==
    \E seq \in SeqArgs :
        ProjCall("extend_right_seq", seq, fm_extend_right_seq(ProjCsa, uit, seq))

\* fm_index_iterator::cycle_back():
\* assert(query_length() > 0 && m_parent_lb <= m_parent_rb); then the body.
ProjCycleBackCall ==
    IF ~(uit.depth > 0 /\ uit.parent_lb <= uit.parent_rb)
    THEN ProjCall("cycle_back_assert", << >>, [ok |-> FALSE, it |-> uit])
    ELSE IF ProjParentValid
    THEN ProjCall("cycle_back", << >>, fm_cycle_back(ProjCsa, uit))
    ELSE ProjCall("cycle_back_undefined", << >>, fm_cycle_back(ProjCsa, uit))

\* Each bidirectional cursor is followed by the walks of its two projections,
\* so the texts are shorter.
InitProject == InitOver(SeqsUpTo(Ranks, MaxCompareTextLen)) /\ kind = "bi"

NextProject ==
    \/ BiExtendRight
    \/ BiExtendLeft
    \/ BiExtendRightChar
    \/ BiExtendLeftChar
    \/ BiExtendRightSeq
    \/ BiExtendLeftSeq
    \/ BiCycleBack
    \/ BiCycleFront
    \/ BiRoot
    \/ BiGetFwdIterator
    \/ BiGetRevIterator
    \/ ProjExtendRight
    \/ ProjExtendRightChar
    \/ ProjExtendRightSeq
    \/ ProjCycleBackCall

SpecProject == InitProject /\ [][NextProject]_vars

\* A client that builds two indices over one text, one with the identity
\* mapping (plain_byte_alphabet) and one with a reduced alphabet, and calls
\* the same member functions on a cursor of each: uit on the first, uother on
\* the second.  ret is the return value of the call on uit.
ReducedCsa == construct_reduced(text)

\* The outcome of operation o with argument a on the cursor c over csa.
\* cycle_back() leaves its loop at once when last_char + 1 is above sigma,
\* passes the test c != sigma and stores _lb and _rb, which were never
\* written: g1 and g2 are the values they happen to hold.
AlphabetResult(csa, c, o, a, g1, g2) ==
    CASE o = "extend_right" -> fm_extend_right(csa, c)
      [] o = "extend_right_char" -> fm_extend_right_char(csa, c, a[1])
      [] o = "extend_right_seq" -> fm_extend_right_seq(csa, c, a)
      [] o = "cycle_back" ->
            IF c.last_char + 1 > csa.sigma
            THEN [ok |-> TRUE,
                  it |-> [c EXCEPT !.lb = g1, !.rb = g2,
                                   !.last_char = c.last_char + 1]]
            ELSE fm_cycle_back(csa, c)
      [] o = "root" -> [ok |-> TRUE, it |-> fm_root(csa, c.parent_lb, c.parent_rb)]

\* ret holds the return values of both calls.
AlphabetCall(o, a) ==
    /\ kind = "alphabets"
    /\ \E g1 \in Uninitialised, g2 \in Uninitialised :
          /\ uit' = AlphabetResult(index.fwd_fm, uit, o, a, g1, g2).it
          /\ uother' = AlphabetResult(ReducedCsa, uother, o, a, g1, g2).it
          /\ ret' = [plain |-> AlphabetResult(index.fwd_fm, uit, o, a, g1, g2).ok,
                     reduced |-> AlphabetResult(ReducedCsa, uother, o, a, g1, g2).ok]
    /\ op \notin Stopped
    /\ op' = IF o = "cycle_back" /\ uother.last_char + 1 > ReducedCsa.sigma
             THEN "cycle_back_undefined"
             ELSE o
    /\ arg' = a
    /\ UNCHANGED <<text, index, kind, it, other, search_vars>>

AlphabetExtendRight == AlphabetCall("extend_right", << >>)

AlphabetExtendRightChar == \E c \in Ranks : AlphabetCall("extend_right_char", <<c>>)

AlphabetExtendRightSeq == \E seq \in SeqArgs : AlphabetCall("extend_right_seq", seq)

\* cycle_back() asserts query_length() > 0 && m_parent_lb <= m_parent_rb;
\* a cursor that holds an interval outside the suffix array is not used
\* further.
AlphabetCycleBack ==
    /\ uit.depth > 0 /\ uit.parent_lb <= uit.parent_rb
    /\ uother.depth > 0 /\ uother.parent_lb <= uother.parent_rb
    /\ AlphabetCall("cycle_back", << >>)

AlphabetRoot == AlphabetCall("root", << >>)

InitAlphabet ==
    /\ text \in Texts
    /\ index = bi_construct(text)
    /\ kind = "alphabets"
    /\ \E g1 \in Uninitialised, g2 \in Uninitialised :
          /\ uit = fm_root(index.fwd_fm, g1, g2)
          /\ uother = fm_root(ReducedCsa, g1, g2)
    /\ it = bi_root(index, 0, 0, 0)
    /\ other = it
    /\ op = "root"
    /\ arg = << >>
    /\ ret = [plain |-> TRUE, reduced |-> TRUE]
    /\ query = << >>
    /\ errors = [total |-> 0, substitution |-> 0, insertion |-> 0, deletion |-> 0]
    /\ scheme_hits = << >>
    /\ trivial_hits = << >>

NextAlphabet ==
    \/ AlphabetExtendRight
    \/ AlphabetExtendRightChar
    \/ AlphabetExtendRightSeq
    \/ AlphabetCycleBack
    \/ AlphabetRoot

SpecAlphabet == InitAlphabet /\ [][NextAlphabet]_vars

\* ------------------------------------------- error distributions of a scheme

\* The pairs (min_errors, max_errors) that have a precomputed scheme.
OptimumSchemeErrors == { <<0, 0>>, <<0, 1>>, <<1, 1>>, <<0, 2>>, <<0, 3>> }

\* res_elem.insert(res_elem.begin(), x) for every element of res.
InsertFront(x, res) == [k \in 1 .. Len(res) |-> <<x>> \o res[k]]

RECURSIVE search_error_distribution_rec(_, _, _)
RECURSIVE search_error_distribution_loop(_, _, _, _)

\* Mutant of search_error_distribution_loop: the loop stops before u0.
search_error_distribution_loop_short(l, u, e, i) ==
    IF i >= u[1] THEN << >>
    ELSE InsertFront(i - e, search_error_distribution_rec(Tail(l), Tail(u), i))
             \o search_error_distribution_loop(l, u, e, i + 1)

\* The for loop of search_error_distribution(res, l, u, e) from i on.
search_error_distribution_loop(l, u, e, i) ==
    IF i > u[1] THEN << >>
    ELSE InsertFront(i - e, search_error_distribution_rec(Tail(l), Tail(u), i))
             \o search_error_distribution_loop(l, u, e, i + 1)

\* search_error_distribution(res, l, u, e): the errors per block, in the
\* order of the search, of which e are spent before the first block of l.
search_error_distribution_rec(l, u, e) ==
    IF Len(l) = 0 THEN << << >> >>
    ELSE search_error_distribution_loop(l, u, e, Max(e, l[1]))

\* search_error_distribution(res, search)
search_error_distribution(search) ==
    search_error_distribution_rec(search.l, search.u, 0)

\* Mutant of order_search_vector: the vector is left in the order of the
\* search.
order_search_vector_unordered(v, search) == v

\* order_search_vector: v[pi[i] - 1] = v_tmp[i], the errors in text order.
order_search_vector(v, search) ==
    [b \in 1 .. Len(v) |-> v[CHOOSE i \in 1 .. Len(search.pi) : search.pi[i] = b]]

\* search_scheme_error_distribution from search search_id on (1-based): the
\* distributions of every search, reordered, one list after the other.
RECURSIVE search_scheme_error_distribution_loop(_, _)
search_scheme_error_distribution_loop(search_scheme, search_id) ==
    IF search_id > Len(search_scheme) THEN << >>
    ELSE LET res_search == search_error_distribution(search_scheme[search_id])
         IN  [k \in 1 .. Len(res_search) |->
                 order_search_vector(res_search[k], search_scheme[search_id])]
             \o search_scheme_error_distribution_loop(search_scheme, search_id + 1)

search_scheme_error_distribution(search_scheme) ==
    search_scheme_error_distribution_loop(search_scheme, 1)

\* trivial_search_scheme of the unit test: one search over the blocks in
\* text order with the bounds min_error and max_error at every block.
trivial_search_scheme(min_error, max_error, blocks) ==
    [pi |-> [i \in 1 .. blocks |-> i],
     l |-> [i \in 1 .. blocks |-> min_error],
     u |-> [i \in 1 .. blocks |-> max_error]]

\* The candidate distributions over the blocks of a scheme for at most
\* max_errors: up to max_errors + 1 errors in each block.
Distributions(blocks, max_errors) == [1 .. blocks -> 0 .. (max_errors + 1)]

\* The unit test of the error distributions: arg is (min_errors,
\* max_errors), query a distribution to look up, scheme_hits the `actual`
\* list and trivial_hits the `expected` list of error_distributions.
InitDistribution ==
    /\ text = <<0>>
    /\ index = bi_construct(text)
    /\ kind = "distribution"
    /\ uit = fm_root(index.fwd_fm, 0, 0)
    /\ uother = uit
    /\ it = bi_root(index, 0, 0, 0)
    /\ other = it
    /\ op = "root"
    /\ arg \in OptimumSchemeErrors
    /\ ret = TRUE
    /\ query \in Distributions(Len(optimum_search_scheme(arg[1], arg[2])[1].pi), arg[2])
    /\ errors = [total |-> 0, substitution |-> 0, insertion |-> 0, deletion |-> 0]
    /\ scheme_hits = << >>
    /\ trivial_hits = << >>

\* search_scheme_error_distribution(actual, oss)
SearchSchemeErrorDistribution ==
    /\ kind = "distribution"
    /\ op = "root"
    /\ scheme_hits' = search_scheme_error_distribution(
                          optimum_search_scheme(arg[1], arg[2]))
    /\ op' = "search_scheme_error_distribution"
    /\ UNCHANGED <<text, index, kind, uit, uother, it, other, arg, ret, query,
                   errors, trivial_hits>>

\* search_error_distribution(expected, simple_search)
SearchErrorDistribution ==
    /\ kind = "distribution"
    /\ op = "search_scheme_error_distribution"
    /\ trivial_hits' = search_error_distribution(
                           trivial_search_scheme(arg[1], arg[2],
                               Len(optimum_search_scheme(arg[1], arg[2])[1].pi)))
    /\ op' = "search_error_distribution"
    /\ UNCHANGED <<text, index, kind, uit, uother, it, other, arg, ret, query,
                   errors, scheme_hits>>

NextDistribution ==
    \/ SearchSchemeErrorDistribution
    \/ SearchErrorDistribution

SpecDistribution == InitDistribution /\ [][NextDistribution]_vars

\* ------------------------------------------------- block info of a scheme

\* The schemes the facade can hand to search_scheme_block_info: the
\* precomputed ones and the single-block fallback.
BlockInfoSchemes ==
    { optimum_search_scheme(e[1], e[2]) : e \in OptimumSchemeErrors }
        \cup { compute_search_scheme(0, e) : e \in 0 .. MaxErrors }

\* A caller of search_scheme_block_info: arg holds the scheme and the
\* length of the query, scheme_hits the returned table.
InitBlockInfo ==
    /\ text = <<0>>
    /\ index = bi_construct(text)
    /\ kind = "block_info"
    /\ uit = fm_root(index.fwd_fm, 0, 0)
    /\ uother = uit
    /\ it = bi_root(index, 0, 0, 0)
    /\ other = it
    /\ op = "root"
    /\ arg \in [search_scheme : BlockInfoSchemes, query_length : 0 .. MaxBlockQueryLen]
    /\ ret = TRUE
    /\ query = << >>
    /\ errors = [total |-> 0, substitution |-> 0, insertion |-> 0, deletion |-> 0]
    /\ scheme_hits = << >>
    /\ trivial_hits = << >>

SearchSchemeBlockInfo ==
    /\ kind = "block_info"
    /\ op = "root"
    /\ scheme_hits' = search_scheme_block_info(arg.search_scheme, arg.query_length)
    /\ op' = "search_scheme_block_info"
    /\ UNCHANGED <<text, index, kind, uit, uother, it, other, arg, ret, query,
                   errors, trivial_hits>>

NextBlockInfo == SearchSchemeBlockInfo

SpecBlockInfo == InitBlockInfo /\ [][NextBlockInfo]_vars

\* A client that searches the index: first with the search-scheme driver,
\* then with the trivial driver under the same budget.
SearchRanks == 0 .. (SearchAlphabetSize - 1)

\* The schemes for (0, max_errors): the precomputed one and the fallback.
SearchSchemes(max_errors) ==
    {optimum_search_scheme(0, max_errors), compute_search_scheme(0, max_errors)}

\* The budget of max_errors mismatches, the one edit kind on which the two
\* drivers are compared.
Budget(max_errors) ==
    [total |-> max_errors, substitution |-> max_errors,
     insertion |-> 0, deletion |-> 0]

InitSearch ==
    /\ InitOver(SeqsOfLen(SearchRanks, MaxSearchTextLen))
    /\ kind = "bi"

\* search_search_scheme<false> over a query that has a symbol for every
\* block of the scheme; arg keeps the scheme that was searched.
SearchScheme ==
    /\ op = "root"
    /\ \E q \in SeqsUpTo(SearchRanks, MaxQueryLen), max_errors \in 0 .. MaxErrors,
          ub \in UndefinedOutcomes :
           \E search_scheme \in SearchSchemes(max_errors) :
            /\ Len(q) >= Len(search_scheme[1].pi)
            /\ query' = q
            /\ errors' = Budget(max_errors)
            /\ scheme_hits' = search_search_scheme(index, q, errors',
                                  search_scheme, FALSE, it, ub)
            /\ trivial_hits' = << >>
            /\ op' = "search_scheme"
            /\ arg' = search_scheme
            /\ UNCHANGED <<text, index, kind, uit, uother, it, other, ret>>

\* search_trivial<substitution, insertion, deletion, false> over the same
\* query with the same budget.
SearchTrivial ==
    /\ op = "search_scheme"
    /\ \E ub \in UndefinedOutcomes :
        /\ trivial_hits' = search_trivial(index, query, errors.total,
                               TRUE, errors.insertion > 0, errors.deletion > 0,
                               FALSE, it, ub)
        /\ op' = "search_trivial"
        /\ UNCHANGED <<text, index, kind, uit, uother, it, other, arg, ret,
                       query, errors, scheme_hits>>

NextSearch ==
    \/ SearchScheme
    \/ SearchTrivial

SpecSearch == InitSearch /\ [][NextSearch]_vars

\* ------------------------------------------------------ abort on first hit

\* A client that runs the search-scheme driver on one query twice: with
\* abort_on_hit set (scheme_hits holds the cursors handed to the delegate)
\* and without (trivial_hits holds them).  arg keeps the scheme.
InitAbort ==
    /\ InitOver(SeqsOfLen(SearchRanks, MaxSearchTextLen))
    /\ kind = "bi"

\* search_search_scheme<true>
SearchSchemeAbort ==
    /\ op = "root"
    /\ \E q \in SeqsUpTo(SearchRanks, MaxQueryLen), max_errors \in 0 .. MaxErrors,
          ub \in UndefinedOutcomes :
           \E search_scheme \in SearchSchemes(max_errors) :
            /\ Len(q) >= Len(search_scheme[1].pi)
            /\ query' = q
            /\ errors' = Budget(max_errors)
            /\ scheme_hits' = search_search_scheme(index, q, errors',
                                  search_scheme, TRUE, it, ub)
            /\ trivial_hits' = << >>
            /\ op' = "search_scheme_abort"
            /\ arg' = search_scheme
            /\ UNCHANGED <<text, index, kind, uit, uother, it, other, ret>>

\* search_search_scheme<false> over the same query with the same scheme.
SearchSchemeAll ==
    /\ op = "search_scheme_abort"
    /\ \E ub \in UndefinedOutcomes :
        /\ trivial_hits' = search_search_scheme(index, query, errors, arg,
                               FALSE, it, ub)
        /\ op' = "search_scheme_all"
        /\ UNCHANGED <<text, index, kind, uit, uother, it, other, arg, ret,
                       query, errors, scheme_hits>>

NextAbort ==
    \/ SearchSchemeAbort
    \/ SearchSchemeAll

SpecAbort == InitAbort /\ [][NextAbort]_vars

\* ------------------------------------------ the accesses of the driver

\* The budgets the driver is run with: mismatches only, and one error of
\* any kind.
AccessBudgets ==
    { Budget(e) : e \in 0 .. MaxErrors }
    \cup { [total |-> 1, substitution |-> 1, insertion |-> 1, deletion |-> 1] }

\* A client that runs the search-scheme driver on one query: scheme_hits
\* holds the cursors handed to the delegate, ret whether an access was made
\* outside the bounds, arg the scheme.
InitAccesses ==
    /\ InitOver(SeqsOfLen(SearchRanks, MaxTextLen))
    /\ kind = "bi"

\* search_search_scheme<false>
SearchSchemeAccesses ==
    /\ op = "root"
    /\ \E q \in SeqsUpTo(SearchRanks, MaxQueryLen), budget \in AccessBudgets,
          ub \in UndefinedOutcomes :
           \E search_scheme \in SearchSchemes(budget.total) :
            /\ Len(q) >= Len(search_scheme[1].pi)
            /\ query' = q
            /\ errors' = budget
            /\ scheme_hits' = search_search_scheme(index, q, budget,
                                  search_scheme, FALSE, it, ub)
            /\ ret' = search_search_scheme_out_of_range(index, q, budget,
                          search_scheme, FALSE, it, ub)
            /\ op' = "search_scheme_accesses"
            /\ arg' = search_scheme
            /\ UNCHANGED <<text, index, kind, uit, uother, it, other,
                           trivial_hits>>

NextAccesses == SearchSchemeAccesses

SpecAccesses == InitAccesses /\ [][NextAccesses]_vars

\* ------------------------------------------------ search with mismatches

\* The index the backtracking on a suffix array runs on: a CSA with a byte
\* alphabet over the text itself.
BacktrackingCst == ConstructReducedCSA(DirectText(text))

\* A client that searches one query with up to k substitutions: with the
\* trivial driver (trivial_hits) and then with the backtracking on a suffix
\* array (ret holds its callbacks).
InitHamming ==
    /\ InitOver(Texts)
    /\ kind = "bi"

\* search_trivial<true, false, false, false>
SearchTrivialHamming ==
    /\ op = "root"
    /\ \E q \in SeqsUpTo(Ranks, MaxTextLen), max_errors \in 0 .. MaxErrors,
          ub \in UndefinedOutcomes :
        /\ query' = q
        /\ errors' = Budget(max_errors)
        /\ trivial_hits' = search_trivial(index, q, max_errors, TRUE, FALSE,
                               FALSE, FALSE, it, ub)
        /\ op' = "search_trivial_hamming"
        /\ UNCHANGED <<text, index, kind, uit, uother, it, other, arg, ret,
                       scheme_hits>>

\* search_backtracking with params.metric = hamming; the pattern holds the
\* bytes of the query.
SearchBacktracking ==
    /\ op = "search_trivial_hamming"
    /\ ret' = search_backtracking(BacktrackingCst,
                  [i \in 1 .. Len(query) |-> query[i] + 1], errors.total, FALSE)
    /\ op' = "search_backtracking"
    /\ UNCHANGED <<text, index, kind, uit, uother, it, other, arg, query,
                   errors, scheme_hits, trivial_hits>>

NextHamming ==
    \/ SearchTrivialHamming
    \/ SearchBacktracking

SpecHamming == InitHamming /\ [][NextHamming]_vars

\* -------------------------------------------------- the facade: budgets

\* The largest value of uint8_t, the type of the four fields of search_params.
U8Max == 255

\* The rates of max_error_rate are written in hundredths: .25 is 25.
RateDenominator == 100

Rates == {0, 25, 50, 100}

\* The lengths of the queries the budgets are computed for: the short ones
\* and two long reads.
MaxShortQueryLen == 8

LongQueryLen == 1024

QueryLengths == (0 .. MaxShortQueryLen) \cup {LongQueryLen \div 4, LongQueryLen}

\* The implicit conversion of the double num / den to uint8_t: the fraction
\* is discarded; the conversion of a value that uint8_t cannot hold is
\* undefined, builds keep the low byte, saturate or yield 0.
DoubleToU8(num, den) ==
    LET v == num \div den
    IN  IF v <= U8Max THEN {v} ELSE {v % (U8Max + 1), 0, U8Max}

NoErrors == [total |-> 0, substitution |-> 0, insertion |-> 0, deletion |-> 0]

\* _search_single, "retrieve error numbers / rates": cfg.error tells which
\* of max_error and max_error_rate the configuration contains, cfg.t is its
\* tuple.  The values max_error can have afterwards.
retrieve_max_error(cfg, query_size) ==
    IF cfg.error = "max_error" THEN {cfg.t}
    ELSE IF cfg.error = "max_error_rate"
    THEN [total : DoubleToU8(cfg.t.total * query_size, RateDenominator),
          substitution : DoubleToU8(cfg.t.substitution * query_size,
                             RateDenominator),
          insertion : DoubleToU8(cfg.t.insertion * query_size,
                          RateDenominator),
          deletion : DoubleToU8(cfg.t.deletion * query_size, RateDenominator)]
    ELSE {NoErrors}

\* A caller that configures max_error_rate for a query of a given length:
\* arg holds the configuration and the length, errors the budgets retrieved.
InitErrorRate ==
    /\ text = <<0>>
    /\ index = bi_construct(text)
    /\ kind = "error_rate"
    /\ uit = fm_root(index.fwd_fm, 0, 0)
    /\ uother = uit
    /\ it = bi_root(index, 0, 0, 0)
    /\ other = it
    /\ op = "root"
    /\ arg \in [error : {"max_error_rate"},
                t : [total : Rates, substitution : Rates,
                     insertion : {0, 25}, deletion : {0, 25}],
                query_size : QueryLengths]
    /\ ret = TRUE
    /\ query = << >>
    /\ errors = NoErrors
    /\ scheme_hits = << >>
    /\ trivial_hits = << >>

RetrieveMaxError ==
    /\ kind = "error_rate"
    /\ op = "root"
    /\ errors' \in retrieve_max_error(arg, arg.query_size)
    /\ op' = "retrieve_max_error"
    /\ UNCHANGED <<text, index, kind, uit, uother, it, other, arg, ret, query,
                   scheme_hits, trivial_hits>>

NextErrorRate == RetrieveMaxError

SpecErrorRate == InitErrorRate /\ [][NextErrorRate]_vars

\* ------------------------------------------------ the facade: a client

\* The error configurations of the client: absolute numbers for mismatches
\* only and for all edit kinds, and a rate of one half for mismatches.
FacadeErrors ==
    { [error |-> "max_error", t |-> Budget(e)] : e \in 1 .. MaxErrors }
    \cup { [error |-> "max_error",
            t |-> [total |-> e, substitution |-> e, insertion |-> e,
                   deletion |-> e]] : e \in 1 .. MaxErrors }
    \cup { [error |-> "max_error_rate",
            t |-> [total |-> 50, substitution |-> 50, insertion |-> 0,
                   deletion |-> 0]],
           [error |-> "none", t |-> NoErrors] }

FacadeStrategies ==
    { [strategy |-> m, s |-> 0] : m \in {"all", "best", "all_best"} }
    \cup { [strategy |-> "strata", s |-> s] : s \in 0 .. 1 }

FacadeConfigs ==
    { [error |-> e.error, t |-> e.t, strategy |-> m.strategy, s |-> m.s,
       output |-> o] :
        e \in FacadeErrors, m \in FacadeStrategies,
        o \in {"index_iterator", "text_position"} }

\* A client of the facade: arg holds the configuration, errors the budgets
\* retrieved, ret what _search_single returns for the query.
InitFacade ==
    /\ InitOver(SeqsUpTo(SearchRanks, MaxTextLen))
    /\ kind = "bi"

\* The trivial driver reads no symbol outside the query: of the undefined
\* outcomes only the value returned without a return statement matters.
FacadeUndefined == { u \in UndefinedOutcomes : u.read = 0 }

\* detail::_search called with one query
SearchSingle ==
    /\ op = "root"
    /\ \E q \in SeqsUpTo(SearchRanks, MaxTextLen), cfg \in FacadeConfigs,
          ub \in FacadeUndefined :
        /\ query' = q
        /\ arg' = cfg
        /\ errors' \in retrieve_max_error(cfg, Len(q))
        /\ ret' = _search_single(index, q, cfg, errors', it, ub)
        /\ op' = "search_single"
        /\ UNCHANGED <<text, index, kind, uit, uother, it, other, scheme_hits,
                       trivial_hits>>

NextFacade == SearchSingle

SpecFacade == InitFacade /\ [][NextFacade]_vars

\* ------------------------------------------- a trace of the trivial driver

\* A client that runs the trivial driver with a choice of edit kinds:
\* trivial_hits holds the hits, ret the edit sequences of the calls made.
InitEdits ==
    /\ InitOver(SeqsOfLen(SearchRanks, MaxTextLen))
    /\ kind = "bi"

\* search_trivial<substitution, insertion, deletion, false>; arg keeps the
\* edit kinds.
SearchTrivialEdits ==
    /\ op = "root"
    /\ \E q \in SeqsUpTo(SearchRanks, MaxTextLen), max_errors \in 0 .. MaxErrors,
          kinds \in [substitution : BOOLEAN, insertion : BOOLEAN,
                     deletion : BOOLEAN], ub \in FacadeUndefined :
        /\ query' = q
        /\ arg' = kinds
        /\ errors' = [total |-> max_errors,
                      substitution |-> IF kinds.substitution THEN max_errors ELSE 0,
                      insertion |-> IF kinds.insertion THEN max_errors ELSE 0,
                      deletion |-> IF kinds.deletion THEN max_errors ELSE 0]
        /\ trivial_hits' = search_trivial(index, q, max_errors,
                               kinds.substitution, kinds.insertion,
                               kinds.deletion, FALSE, it, ub)
        /\ ret' = search_trivial_edits(index, q, max_errors,
                      kinds.substitution, kinds.insertion, kinds.deletion, it)
        /\ op' = "search_trivial_edits"
        /\ UNCHANGED <<text, index, kind, uit, uother, it, other, scheme_hits>>

NextEdits == SearchTrivialEdits

SpecEdits == InitEdits /\ [][NextEdits]_vars

\* ------------------------------------ the facade: the loop, pass by pass

\* The configured totals of the client, and the number of passes after
\* which the client is no longer followed.
LoopTotals == {0, 1, U8Max - 1, U8Max}

MaxRuns == U8Max + 2

LoopStrategies ==
    { [strategy |-> m, s |-> 1, output |-> "text_position"] :
        m \in {"best", "all_best", "strata"} }

\* A client of the facade whose strategy raises the total: arg holds the
\* configuration, errors max_error, trivial_hits the hits of the internal
\* delegate; ret holds max_error2.total, the number of driver runs of the
\* loop and, at the end, the returned hits.
InitLoop ==
    /\ InitOver(SeqsOfLen(SearchRanks, 1))
    /\ kind = "bi"

\* _search_single up to the loop: max_error2{max_error}; max_error2.total = 0
EnterLoop ==
    /\ op = "root"
    /\ \E q \in SeqsUpTo(SearchRanks, MaxSeqLen), cfg \in LoopStrategies,
          max_total \in LoopTotals :
        /\ query' = q
        /\ arg' = cfg
        /\ errors' = Budget(max_total)
        /\ trivial_hits' = << >>
        /\ ret' = [total |-> 0, runs |-> 0, hits |-> << >>]
        /\ op' = "raise_total"
        /\ UNCHANGED <<text, index, kind, uit, uother, it, other, scheme_hits>>

\* One pass of the loop: a driver run and max_error2.total++.
RaiseTotal ==
    /\ op = "raise_total"
    /\ \E ub \in FacadeUndefined :
        LET step == raise_total_step(index, query, errors, ret.total,
                        arg.strategy # "all_best", it, ub)
        IN  /\ trivial_hits = << >>
            /\ ret.total <= errors.total
            /\ ret.runs < MaxRuns
            /\ trivial_hits' = step.hits
            /\ ret' = [ret EXCEPT !.total = step.total, !.runs = @ + 1]
            /\ UNCHANGED <<text, index, kind, uit, uother, it, other, op, arg,
                           query, errors, scheme_hits>>

\* The loop is left: the rest of _search_single.
LeaveLoop ==
    /\ op = "raise_total"
    /\ \E ub \in FacadeUndefined :
        /\ ~(trivial_hits = << >> /\ ret.total <= errors.total)
        /\ ret' = [ret EXCEPT !.hits =
                      output_hits(index, arg,
                          internal_hits_of(
                              after_raise_total(index, query, arg, errors,
                                  [hits |-> trivial_hits, total |-> ret.total],
                                  it, ub)))]
        /\ op' = "search_single"
        /\ UNCHANGED <<text, index, kind, uit, uother, it, other, arg, query,
                       errors, scheme_hits, trivial_hits>>

NextLoop ==
    \/ EnterLoop
    \/ RaiseTotal
    \/ LeaveLoop

SpecLoop == InitLoop /\ [][NextLoop]_vars

\* ------------------------------------------------------------ ground truth

\* The 0-based start positions of q in t, by comparing characters.
Occurrences(t, q) ==
    { i \in 0 .. (Len(t) - Len(q)) : \A j \in 1 .. Len(q) : t[i + j] = q[j] }

\* The ranks x for which q followed by x occurs in t.
Children(t, q) == { x \in Ranks : Occurrences(t, Append(q, x)) # {} }

\* The ranks x for which x followed by q occurs in t.
ChildrenLeft(t, q) == { x \in Ranks : Occurrences(t, <<x>> \o q) # {} }

\* hits lists every element of positions exactly once.
ExactlyOnce(hits, positions) ==
    /\ Len(hits) = Cardinality(positions)
    /\ { hits[i] : i \in 1 .. Len(hits) } = positions

IsMinOf(x, S) == x \in S /\ \A y \in S : x <= y

ExtendRightOps == {"extend_right", "extend_right_char", "extend_right_seq"}

ExtendLeftOps == {"extend_left", "extend_left_char", "extend_left_seq"}

CycleOps == {"cycle_back", "cycle_front"}

\* ------------------------------------------------------------------ claims

\* C1: every bidirectional cursor reachable by extend_right / extend_left (all
\* three forms) and legal cycle_back / cycle_front has forward and reverse
\* intervals of the same width, and count() is that width.
C1_IntervalsSameWidth ==
    kind = "bi" =>
        /\ it.fwd_rb - it.fwd_lb = it.rev_rb - it.rev_lb
        /\ bi_count(it) = it.fwd_rb - it.fwd_lb + 1
        /\ bi_count(it) = it.rev_rb - it.rev_lb + 1

\* C1 witness: a cursor of depth two or more that has just cycled to a
\* sibling and whose two intervals lie at different places.
C1_Witness ==
    /\ kind = "bi"
    /\ op = "cycle_back"
    /\ ret
    /\ it.depth >= 2
    /\ it.rev_lb # it.fwd_lb

\* The text positions a list of cursors stands for.
Positions(idx, its) ==
    UNION { LET hits == bi_locate(idx, its[i])
            IN  { hits[j] : j \in 1 .. Len(hits) } : i \in 1 .. Len(its) }

\* C2: for a search scheme complete for (0, max) errors and a query whose
\* length is compatible with it, the set of text positions the search-scheme
\* driver reports equals the set the trivial backtracking driver reports with
\* the same error budget.
C2_SchemeEqualsTrivial ==
    op = "search_trivial" =>
        Positions(index, scheme_hits)
            = Positions(index, [i \in 1 .. Len(trivial_hits) |-> trivial_hits[i].it])

\* C3: locate() on the cursor reached from the root by extend_right(Q), Q
\* occurring in T, lists exactly the start positions of Q in T, each once; and
\* the extension from the root fails only if Q does not occur.
C3_LocateIsOccurrences ==
    /\ (kind = "fm" /\ op = "extend_right_seq" /\ ret /\ uit.depth = Len(arg))
          => ExactlyOnce(fm_locate(index.fwd_fm, uit), Occurrences(text, arg))
    /\ (kind = "fm" /\ op = "extend_right_seq" /\ ~ret /\ uit.depth = 0)
          => Occurrences(text, arg) = {}
    /\ (kind = "bi" /\ op = "extend_right_seq" /\ ret /\ it.depth = Len(arg))
          => ExactlyOnce(bi_locate(index, it), Occurrences(text, arg))
    /\ (kind = "bi" /\ op = "extend_right_seq" /\ ~ret /\ it.depth = 0)
          => Occurrences(text, arg) = {}

\* C3 witness: a two-symbol query from the root that occurs twice.
C3_Witness ==
    /\ kind = "fm"
    /\ op = "extend_right_seq"
    /\ ret
    /\ Len(arg) = 2
    /\ uit.depth = 2
    /\ Cardinality(Occurrences(text, arg)) = 2

\* C4: a unidirectional extend_right(), extend_right(c) or extend_right(seq)
\* that returns false leaves interval, depth, last character and parent
\* interval as they were, also when a sequence fails after a successful prefix.
C4_FailedExtendUnchanged ==
    [][(kind = "fm" /\ op' \in ExtendRightOps /\ ~ret') => uit' = uit]_vars

\* C4 witness: a sequence extension below the root failed at its second
\* symbol although its first symbol alone extends the cursor.
C4_Witness ==
    /\ kind = "fm"
    /\ op = "extend_right_seq"
    /\ ~ret
    /\ Len(arg) = 2
    /\ uit.depth > 0
    /\ fm_extend_right_char(index.fwd_fm, uit, arg[1]).ok

\* C5: a bidirectional extend_right / extend_left (any form) that returns
\* false leaves the whole cursor as it was, the recorded direction of the last
\* extension included.
C5_FailedBiExtendUnchanged ==
    [][(kind = "bi" /\ op' \in (ExtendRightOps \cup ExtendLeftOps) /\ ~ret')
          => it' = it]_vars

\* C5, the part that survives: everything but the recorded direction is kept.
C5_FailedBiExtendKeepsIntervals ==
    [][(kind = "bi" /\ op' \in (ExtendRightOps \cup ExtendLeftOps) /\ ~ret')
          => it' = [it EXCEPT !.fwd_iter_last_used = it'.fwd_iter_last_used]]_vars

\* root.extend_right(c.query()) for the unidirectional cursor c.
fm_requery(csa, t, c) ==
    fm_extend_right_seq(csa, fm_root(csa, 0, 0), fm_query(csa, t, c))

\* root.extend_right(c.query()) for the bidirectional cursor c.
bi_requery(idx, t, c) ==
    bi_extend_right_seq(idx, bi_root(idx, 0, 0, 0), bi_query(idx, t, c))

\* C6: for every reachable cursor c with depth > 0, left extensions and cycles
\* included, root.extend_right(c.query()) succeeds and the comparison of the
\* result with c runs through operator== and returns true.
C6_QueryRoundTrip ==
    /\ (kind = "fm" /\ uit.depth > 0) =>
          LET r == fm_requery(index.fwd_fm, text, uit)
          IN  r.ok /\ fm_equal_assert(r.it, uit) /\ fm_equal(r.it, uit)
    /\ (kind = "bi" /\ it.depth > 0) =>
          LET r == bi_requery(index, text, it)
          IN  r.ok /\ bi_equal_assert(r.it, it) /\ bi_equal(r.it, it)

\* C6, the part that survives: the extension succeeds and the comparison key
\* (interval and depth) of the result is that of c.
C6_QueryRoundTripKey ==
    /\ (kind = "fm" /\ uit.depth > 0) =>
          LET r == fm_requery(index.fwd_fm, text, uit)
          IN  r.ok /\ fm_equal(r.it, uit)
    /\ (kind = "bi" /\ it.depth > 0) =>
          LET r == bi_requery(index, text, it)
          IN  r.ok /\ bi_equal(r.it, it)

\* C7: two reachable cursors over the same index with the same SA interval
\* and the same depth > 0 have the same parent interval (and, bidirectional,
\* the same last character): the assertion in operator== holds.
C7_EqualImpliesSameParent ==
    /\ kind = "fm" => fm_equal_assert(uit, uother)
    /\ kind = "bi" => bi_equal_assert(it, other)

\* C8: a successful cycle_back() or cycle_front() leaves a last_char strictly
\* greater than the one before the call.
C8_CycleIncreasesLastChar ==
    [][/\ (kind = "fm" /\ op' \in CycleOps /\ ret')
            => fm_last_char(index.fwd_fm, uit') > fm_last_char(index.fwd_fm, uit)
       /\ (kind = "bi" /\ op' \in CycleOps /\ ret')
            => bi_last_char(it') > bi_last_char(it)]_vars

\* C8 witness: a successful cycle_front() at depth two that lands on the
\* largest symbol.
C8_Witness ==
    /\ kind = "bi"
    /\ op = "cycle_front"
    /\ ret
    /\ bi_last_char(it) = 2
    /\ it.depth = 2

\* C9: from a cursor with query q, extend_right() lands on the smallest x with
\* q.x in T (and fails iff there is none); each cycle_back() moves from q.y to
\* the next larger x with q.x in T (and fails iff there is none); at each
\* landing the query is q.x and count() is the number of occurrences of q.x.
C9_ChildrenInOrder ==
    [][/\ (kind = "fm" /\ op' = "extend_right") =>
            LET q == fm_query(index.fwd_fm, text, uit)
                q2 == fm_query(index.fwd_fm, text, uit')
            IN  /\ ret' <=> Children(text, q) # {}
                /\ ret' => /\ IsMinOf(fm_last_char(index.fwd_fm, uit'), Children(text, q))
                           /\ q2 = Append(q, fm_last_char(index.fwd_fm, uit'))
                           /\ fm_count(uit') = Cardinality(Occurrences(text, q2))
       /\ (kind = "fm" /\ op' = "cycle_back") =>
            LET qy == fm_query(index.fwd_fm, text, uit)
                q == SubSeq(qy, 1, Len(qy) - 1)
                larger == { x \in Children(text, q) : x > qy[Len(qy)] }
                q2 == fm_query(index.fwd_fm, text, uit')
            IN  /\ ret' <=> larger # {}
                /\ ret' => /\ IsMinOf(fm_last_char(index.fwd_fm, uit'), larger)
                           /\ q2 = Append(q, fm_last_char(index.fwd_fm, uit'))
                           /\ fm_count(uit') = Cardinality(Occurrences(text, q2))
       /\ (kind = "bi" /\ op' = "extend_right") =>
            LET q == bi_query(index, text, it)
                q2 == bi_query(index, text, it')
            IN  /\ ret' <=> Children(text, q) # {}
                /\ ret' => /\ IsMinOf(bi_last_char(it'), Children(text, q))
                           /\ q2 = Append(q, bi_last_char(it'))
                           /\ bi_count(it') = Cardinality(Occurrences(text, q2))
       /\ (kind = "bi" /\ op' = "cycle_back") =>
            LET qy == bi_query(index, text, it)
                q == SubSeq(qy, 1, Len(qy) - 1)
                larger == { x \in Children(text, q) : x > qy[Len(qy)] }
                q2 == bi_query(index, text, it')
            IN  /\ ret' <=> larger # {}
                /\ ret' => /\ IsMinOf(bi_last_char(it'), larger)
                           /\ q2 = Append(q, bi_last_char(it'))
                           /\ bi_count(it') = Cardinality(Occurrences(text, q2))]_vars

\* C9 witness: below the root, cycle_back() skipped an absent symbol and
\* landed on the largest one.
C9_Witness ==
    /\ kind = "fm"
    /\ op = "cycle_back"
    /\ ret
    /\ uit.depth = 2
    /\ fm_last_char(index.fwd_fm, uit) = 2
    /\ Children(text, SubSeq(fm_query(index.fwd_fm, text, uit), 1, 1)) = {0, 2}

\* C10: a cycle_back() or cycle_front() that returns false leaves the cursor
\* exactly as it was.
C10_FailedCycleUnchanged ==
    [][/\ (kind = "fm" /\ op' \in CycleOps /\ ~ret') => uit' = uit
       /\ (kind = "bi" /\ op' \in CycleOps /\ ~ret') => it' = it]_vars

\* C10 witness: cycle_front() failed on a cursor that has a larger symbol in
\* the alphabet but not in the text to its left.
C10_Witness ==
    /\ kind = "bi"
    /\ op = "cycle_front"
    /\ ~ret
    /\ bi_last_char(it) < AlphabetSize - 1
    /\ bi_count(it) >= 1

\* C11: extend_left(seq) on a bidirectional cursor with query q succeeds
\* exactly when seq.q occurs in the text, and then leaves query() = seq.q:
\* the sequence is prepended as a whole, in its given order.
C11_ExtendLeftSeqPrepends ==
    [][(kind = "bi" /\ op' = "extend_left_seq") =>
            LET q == bi_query(index, text, it)
            IN  /\ ret' <=> Occurrences(text, arg' \o q) # {}
                /\ ret' => bi_query(index, text, it') = arg' \o q]_vars

\* What extend_left(seq) does: it prepends the symbols one by one from the
\* first to the last, so it succeeds exactly when Reverse(seq).q occurs and
\* leaves that as the query.
C11_ExtendLeftSeqPrependsReversed ==
    [][(kind = "bi" /\ op' = "extend_left_seq") =>
            LET q == bi_query(index, text, it)
            IN  /\ ret' <=> Occurrences(text, Reverse(arg') \o q) # {}
                /\ ret' => bi_query(index, text, it') = Reverse(arg') \o q]_vars

\* The pattern as it stands in an indexed text: ranks + 1.
Compact(p) == [j \in 1 .. Len(p) |-> p[j] + 1]

\* The suffix-array positions (0-based) of the suffixes of the indexed text s
\* that start with the pattern p, by comparing characters.
SAInterval(csa, s, p) ==
    { k \in 0 .. csa.size - 1 :
        /\ csa.sa[k + 1] + Len(p) <= Len(s)
        /\ \A j \in 1 .. Len(p) : s[csa.sa[k + 1] + j] = p[j] }

\* The forward interval of c is the suffix-array interval of its query in
\* fwd_fm (whose indexed text is the reversed text) and the reverse interval
\* that of the reversed query in rev_fm.
BiIntervalsMatchQuery(c) ==
    LET q == bi_query(index, text, c)
    IN  /\ c.fwd_lb .. c.fwd_rb
            = SAInterval(index.fwd_fm, IndexedText(text), Compact(Reverse(q)))
        /\ c.rev_lb .. c.rev_rb
            = SAInterval(index.rev_fm, IndexedText(Reverse(text)), Compact(q))

\* C12: after any mix of successful extensions and legal cycles the forward
\* interval of a bidirectional cursor is the suffix-array interval of the
\* current query and the reverse interval that of the reversed query in the
\* mirror index; a cycle replaces the last (cycle_back) or first (cycle_front)
\* symbol of the query and a single-symbol extension adds its symbol at its
\* end, whatever cycles came before.
C12_IntervalsAreThoseOfQuery ==
    [][kind = "bi" =>
          LET q == bi_query(index, text, it)
              q2 == bi_query(index, text, it')
              x == <<bi_last_char(it')>>
          IN  /\ BiIntervalsMatchQuery(it)
              /\ BiIntervalsMatchQuery(it')
              /\ ret' =>
                   /\ op' = "cycle_back" => q2 = SubSeq(q, 1, Len(q) - 1) \o x
                   /\ op' = "cycle_front" => q2 = x \o SubSeq(q, 2, Len(q))
                   /\ op' = "extend_right" => q2 = q \o x
                   /\ op' = "extend_left" => q2 = x \o q
                   /\ op' = "extend_right_char" => q2 = q \o arg'
                   /\ op' = "extend_left_char" => q2 = arg' \o q
                   /\ op' = "extend_right_seq" => q2 = q \o arg']_vars

\* C12 witness: cycle_front() moved a cursor of two symbols, reached by a left
\* extension, on to the sibling with the larger first symbol.
C12_Witness ==
    /\ kind = "bi"
    /\ op = "cycle_front"
    /\ ret
    /\ it.depth = 2
    /\ bi_query(index, text, it) = <<1, 1>>
    /\ text = <<0, 1, 1>>

\* C13: on a bidirectional cursor, cycle_back() when the last extension was to
\* the left, cycle_front() when it was to the right, and either cycle at depth
\* 0 are rejected by an assertion, before any field of the cursor changes.
C13_IllegalCycleAsserts ==
    [][kind = "bi" =>
          /\ (/\ op' \in {"cycle_back", "cycle_back_assert", "cycle_back_undefined"}
              /\ ~(it.depth > 0 /\ it.parent_of = "fwd"))
                => (op' = "cycle_back_assert" /\ it' = it)
          /\ (/\ op' \in {"cycle_front", "cycle_front_assert", "cycle_front_undefined"}
              /\ ~(it.depth > 0 /\ it.parent_of = "rev"))
                => (op' = "cycle_front_assert" /\ it' = it)]_vars

\* What holds of the assertions: a cycle at depth 0, and a cycle against the
\* direction of the last extend_* call, failed calls included, is rejected
\* with the cursor unchanged.
C13_CycleAgainstLastCallAsserts ==
    [][kind = "bi" =>
          /\ (/\ op' \in {"cycle_back", "cycle_back_assert", "cycle_back_undefined"}
              /\ ~(it.depth > 0 /\ it.fwd_iter_last_used))
                => (op' = "cycle_back_assert" /\ it' = it)
          /\ (/\ op' \in {"cycle_front", "cycle_front_assert", "cycle_front_undefined"}
              /\ ~(it.depth > 0 /\ ~it.fwd_iter_last_used))
                => (op' = "cycle_front_assert" /\ it' = it)]_vars

\* The cycle_back() calls on a projection, by their outcome.
ProjCycleBackOps == {"cycle_back", "cycle_back_assert", "cycle_back_undefined"}

\* C14: projecting a bidirectional cursor to the forward cursor when its last
\* extension was to the left, or to the reverse cursor when it was to the
\* right, yields the copied interval, depth and last character with the empty
\* parent interval (1, 0), and cycle_back() on the projection trips the
\* assertion until the projection has been extended successfully once.
C14_ProjectionAgainstLastExtension ==
    [][/\ (kind = "bi" /\ kind' = "fwd_proj" /\ it.parent_of = "rev")
            => uit' = [lb |-> it.fwd_lb, rb |-> it.fwd_rb, depth |-> it.depth,
                       last_char |-> it.last_char,
                       parent_lb |-> 1, parent_rb |-> 0]
       /\ (kind = "bi" /\ kind' = "rev_proj" /\ it.parent_of = "fwd")
            => uit' = [lb |-> it.rev_lb, rb |-> it.rev_rb, depth |-> it.depth,
                       last_char |-> it.last_char,
                       parent_lb |-> 1, parent_rb |-> 0]
       /\ (/\ kind \in ProjKinds
           /\ op' \in ProjCycleBackOps
           /\ uit.depth = it.depth
           /\ \/ (kind = "fwd_proj" /\ it.parent_of = "rev")
              \/ (kind = "rev_proj" /\ it.parent_of = "fwd"))
            => (op' = "cycle_back_assert" /\ uit' = uit)]_vars

\* What holds of the projections: the parent interval is emptied, and
\* cycle_back() asserts until the first successful extension, when the last
\* extend_* call on the bidirectional cursor, failed calls included, was in
\* the other direction.
C14_ProjectionAgainstLastCall ==
    [][/\ (kind = "bi" /\ kind' = "fwd_proj" /\ ~it.fwd_iter_last_used)
            => uit' = [lb |-> it.fwd_lb, rb |-> it.fwd_rb, depth |-> it.depth,
                       last_char |-> it.last_char,
                       parent_lb |-> 1, parent_rb |-> 0]
       /\ (kind = "bi" /\ kind' = "rev_proj" /\ it.fwd_iter_last_used)
            => uit' = [lb |-> it.rev_lb, rb |-> it.rev_rb, depth |-> it.depth,
                       last_char |-> it.last_char,
                       parent_lb |-> 1, parent_rb |-> 0]
       /\ (/\ kind \in ProjKinds
           /\ op' \in ProjCycleBackOps
           /\ uit.depth = it.depth
           /\ \/ (kind = "fwd_proj" /\ ~it.fwd_iter_last_used)
              \/ (kind = "rev_proj" /\ it.fwd_iter_last_used))
            => (op' = "cycle_back_assert" /\ uit' = uit)]_vars

\* C15: for every text, also one that uses only part of the alphabet, and
\* every sequence of operations, the cursor over the index with the reduced
\* alphabet returns the same success flag, count, located positions and
\* last_char() as the cursor over the index with the identity mapping, and
\* visits the same siblings.
C15_ReducedEqualsIdentity ==
    [][kind = "alphabets" =>
          /\ ret'.reduced = ret'.plain
          /\ fm_count(uother') = fm_count(uit')
          /\ fm_locate(ReducedCsa, uother') = fm_locate(index.fwd_fm, uit')
          /\ uit'.depth > 0 =>
                fm_last_char(ReducedCsa, uother') = fm_last_char(index.fwd_fm, uit')]_vars

\* What holds across the two alphabets: the two cursors agree in every field
\* and every return value as long as the symbols of the text are the first
\* ones of the alphabet, so that the reduced mapping is the identity on them.
C15_ReducedEqualsIdentityOnDenseTexts ==
    [][(/\ kind = "alphabets"
        /\ \A x \in Ranks : Occurrences(text, <<x>>) = {}
                               => \A y \in Ranks : y > x => Occurrences(text, <<y>>) = {})
          => /\ uother' = uit'
             /\ ret'.reduced = ret'.plain]_vars

\* last_char() of a unidirectional cursor c over csa is the symbol of the
\* edge that the successful operation o with argument a has just taken.
FmLastCharIsLastEdge(csa, c, o, a) ==
    LET q == fm_query(csa, text, c)
    IN  /\ o = "extend_right_char" => fm_last_char(csa, c) = a[1]
        /\ o = "extend_right_seq" => fm_last_char(csa, c) = a[Len(a)]
        /\ o \in {"extend_right", "cycle_back"} => fm_last_char(csa, c) = q[Len(q)]

\* The same for a bidirectional cursor, whose left extensions and
\* cycle_front() take an edge at the front of the query.
BiLastCharIsLastEdge(c, o, a) ==
    LET q == bi_query(index, text, c)
    IN  /\ o = "extend_right_char" => bi_last_char(c) = a[1]
        /\ o = "extend_right_seq" => bi_last_char(c) = a[Len(a)]
        /\ o \in {"extend_right", "cycle_back"} => bi_last_char(c) = q[Len(q)]
        /\ o \in ExtendLeftOps \cup {"cycle_front"} => bi_last_char(c) = q[1]

\* C16: at depth > 0, last_char() is the external symbol of the most recent
\* edge: c after extend_right(c), the last symbol of seq after
\* extend_right(seq), the last symbol of query() after extend_right() or
\* cycle_back(), and the first symbol of query() after a left extension or
\* cycle_front() of a bidirectional cursor; on an index of either alphabet.
C16_LastCharIsLastEdge ==
    [][/\ (kind = "fm" /\ ret' /\ uit'.depth > 0)
            => FmLastCharIsLastEdge(index.fwd_fm, uit', op', arg')
       /\ (kind = "bi" /\ ret' /\ it'.depth > 0)
            => BiLastCharIsLastEdge(it', op', arg')
       /\ (kind = "alphabets" /\ ret'.plain /\ uit'.depth > 0)
            => FmLastCharIsLastEdge(index.fwd_fm, uit', op', arg')
       /\ (kind = "alphabets" /\ ret'.reduced /\ uother'.depth > 0)
            => FmLastCharIsLastEdge(ReducedCsa, uother', op', arg')]_vars

\* What holds: the statement on an index with the identity mapping, which is
\* the default of fm_index and the only one of bi_fm_index.
C16_LastCharIsLastEdgeIdentity ==
    [][/\ (kind = "fm" /\ ret' /\ uit'.depth > 0)
            => FmLastCharIsLastEdge(index.fwd_fm, uit', op', arg')
       /\ (kind = "bi" /\ ret' /\ it'.depth > 0)
            => BiLastCharIsLastEdge(it', op', arg')
       /\ (kind = "alphabets" /\ ret'.plain /\ uit'.depth > 0)
            => FmLastCharIsLastEdge(index.fwd_fm, uit', op', arg')]_vars

\* Every position of loc lies in [0, |T|] and the depth symbols of the text
\* that start there exist; q(1) is then the query, read at the first position.
LocateInText(loc, depth) ==
    \A i \in 1 .. Len(loc) : loc[i] \in 0 .. Len(text) /\ loc[i] + depth <= Len(text)

\* The depth symbols of the text at every position of loc are the query q.
LocateYieldsQuery(loc, depth, q) ==
    \A i \in 1 .. Len(loc) : Slice(text, loc[i], loc[i] + depth) = q

\* C17: for every text and every reachable cursor, unidirectional or
\* bidirectional, over an index of either alphabet, every value of locate()
\* lies in [0, |T|] and the substring of T of length depth that starts there
\* equals query().
C17_LocateRoundTrip ==
    /\ kind \in {"fm", "alphabets"} =>
          /\ LocateInText(fm_locate(index.fwd_fm, uit), uit.depth)
          /\ LocateYieldsQuery(fm_locate(index.fwd_fm, uit), uit.depth,
                               fm_query(index.fwd_fm, text, uit))
    /\ kind = "bi" =>
          /\ LocateInText(bi_locate(index, it), it.depth)
          /\ LocateYieldsQuery(bi_locate(index, it), it.depth, bi_query(index, text, it))
    /\ kind = "alphabets" =>
          /\ LocateInText(fm_locate(ReducedCsa, uother), uother.depth)
          /\ LocateYieldsQuery(fm_locate(ReducedCsa, uother), uother.depth,
                               fm_query(ReducedCsa, text, uother))

\* What holds: the statement for the cursors over an index with the identity
\* mapping.
C17_LocateRoundTripIdentity ==
    /\ kind \in {"fm", "alphabets"} =>
          /\ LocateInText(fm_locate(index.fwd_fm, uit), uit.depth)
          /\ LocateYieldsQuery(fm_locate(index.fwd_fm, uit), uit.depth,
                               fm_query(index.fwd_fm, text, uit))
    /\ kind = "bi" =>
          /\ LocateInText(bi_locate(index, it), it.depth)
          /\ LocateYieldsQuery(bi_locate(index, it), it.depth, bi_query(index, text, it))

\* The number of positions in (from, to] at which s and q differ.
Mismatches(s, q, from, to) == Cardinality({ k \in from + 1 .. to : s[k] # q[k] })

\* The errors of the alignment of s to q without gaps that fall into the
\* first i blocks of the search, blocks taken in the order pi.  info is the
\* search's entry of search_scheme_block_info: after i blocks the search has
\* covered blocklength[i] symbols, and block pi[i] is the one it added, on
\* the right if pi[i] is larger than the blocks before it and on the left
\* otherwise.
RECURSIVE CoveredLeft(_, _, _)
CoveredLeft(search, info, i) ==
    IF i = 1 THEN info.start_pos
    ELSE IF search.pi[i] > search.pi[1]
    THEN CoveredLeft(search, info, i - 1)
    ELSE CoveredLeft(search, info, i - 1)
             - (info.blocklength[i] - info.blocklength[i - 1])

CumulativeErrors(s, q, search, info, i) ==
    Mismatches(s, q, CoveredLeft(search, info, i),
               CoveredLeft(search, info, i) + info.blocklength[i])

\* s is within the bounds of the search after every block.
WithinBounds(s, q, search, info) ==
    \A i \in 1 .. Len(search.pi) :
        /\ search.l[i] <= CumulativeErrors(s, q, search, info, i)
        /\ CumulativeErrors(s, q, search, info, i) <= search.u[i]

\* Some search of the scheme admits the string of the hit.
HitWithinBounds(hit, q, search_scheme) ==
    LET s == bi_query(index, text, hit)
        block_info == search_scheme_block_info(search_scheme, Len(q))
    IN  /\ Len(s) = Len(q)
        /\ \E search_id \in 1 .. Len(search_scheme) :
              WithinBounds(s, q, search_scheme[search_id], block_info[search_id])

\* C18: every hit for which the search-scheme driver calls the delegate
\* corresponds to an alignment of the query whose cumulative error count
\* after each block, in the order pi of the search, lies in [L[i], U[i]].
C18_HitsWithinBounds ==
    op = "search_scheme" =>
        \A h \in 1 .. Len(scheme_hits) : HitWithinBounds(scheme_hits[h], query, arg)

\* What holds: the statement for the searches in which no block of two or
\* more symbols lies left of the first block of a search.
C18_HitsWithinBoundsNoLongLeftBlock ==
    (/\ op = "search_scheme"
     /\ \/ Len(arg[1].pi) = 1
        \/ Len(query) = Len(arg[1].pi))
        => \A h \in 1 .. Len(scheme_hits) : HitWithinBounds(scheme_hits[h], query, arg)

\* The total number of errors of a distribution.
RECURSIVE TotalErrors(_)
TotalErrors(d) == IF Len(d) = 0 THEN 0 ELSE d[1] + TotalErrors(Tail(d))

\* The places of the list of distributions res that hold d.
PlacesOf(res, d) == { k \in 1 .. Len(res) : res[k] = d }

\* C19: for each precomputed optimum scheme, the union over its searches of
\* the admissible error distributions is the set of all distributions over
\* the scheme's blocks whose total lies in [min_errors, max_errors].
C19_SchemeCoversAllDistributions ==
    (kind = "distribution" /\ op # "root") =>
        (PlacesOf(scheme_hits, query) # {}
            <=> (arg[1] <= TotalErrors(query) /\ TotalErrors(query) <= arg[2]))

\* C19 witness: three errors in three different blocks are admitted by the
\* scheme for up to three errors.
C19_Witness ==
    /\ kind = "distribution"
    /\ op = "search_scheme_error_distribution"
    /\ arg = <<0, 3>>
    /\ query = <<1, 0, 1, 0, 1>>
    /\ PlacesOf(scheme_hits, query) # {}

\* C20: in each precomputed optimum scheme no error distribution is
\* admissible in two different searches.
C20_SearchesDisjoint ==
    (kind = "distribution" /\ op # "root") =>
        Cardinality(PlacesOf(scheme_hits, query)) <= 1

\* C20 witness: a distribution of two errors that exactly one search of the
\* scheme for up to two errors admits.
C20_Witness ==
    /\ kind = "distribution"
    /\ op = "search_scheme_error_distribution"
    /\ arg = <<0, 2>>
    /\ query = <<0, 1, 0, 1>>
    /\ Cardinality(PlacesOf(scheme_hits, query)) = 1

\* The length of block j (1-based, in query order) of a query of length n
\* cut into k blocks.
BlockLength(n, k, j) == (n \div k) + (IF j <= n % k THEN 1 ELSE 0)

\* The summed length of the blocks in the set bs.
RECURSIVE SummedLength(_, _, _)
SummedLength(n, k, bs) ==
    IF bs = {} THEN 0
    ELSE LET b == CHOOSE x \in bs : TRUE
         IN  BlockLength(n, k, b) + SummedLength(n, k, bs \ {b})

\* C21: block j has length floor(n/k)+1 if j <= n mod k and floor(n/k)
\* otherwise; for every search, entry i of the cumulative block lengths is
\* the summed length of the first i blocks of pi (the last entry being n),
\* and start_pos is the summed length of the blocks with an index smaller
\* than the first block of pi.
C21_BlockInfo ==
    (kind = "block_info" /\ op = "search_scheme_block_info") =>
        LET n == arg.query_length
            k == Len(arg.search_scheme[1].pi)
        IN  \A search_id \in 1 .. Len(arg.search_scheme) :
                LET pi == arg.search_scheme[search_id].pi
                    info == scheme_hits[search_id]
                IN  /\ \A i \in 1 .. k :
                          info.blocklength[i]
                              = SummedLength(n, k, { pi[m] : m \in 1 .. i })
                    /\ info.blocklength[k] = n
                    /\ info.start_pos
                          = SummedLength(n, k, { b \in 1 .. k : b < pi[1] })

\* C21 witness: a query of ten symbols in the four blocks of the scheme for
\* up to two errors (lengths 3, 3, 2, 2); the search that begins with block
\* 3 starts at position 6.
C21_Witness ==
    /\ kind = "block_info"
    /\ op = "search_scheme_block_info"
    /\ arg.query_length = 10
    /\ arg.search_scheme = optimum_search_scheme(0, 2)
    /\ scheme_hits[2].start_pos = 6
    /\ scheme_hits[2].blocklength = <<2, 5, 8, 10>>

\* C22: with abort_on_hit set the search-scheme driver calls the delegate
\* exactly once if any search of the scheme admits a hit and not at all
\* otherwise: it never skips siblings or searches before a delegate call.
C22_AbortCallsDelegateOnce ==
    op = "search_scheme_all" =>
        Len(scheme_hits) = (IF Len(trivial_hits) > 0 THEN 1 ELSE 0)

\* What holds: with abort_on_hit set the delegate is called at most once,
\* and with a cursor that the driver without abort_on_hit reports too.
C22_AbortCallsDelegateAtMostOnce ==
    op = "search_scheme_all" =>
        /\ Len(scheme_hits) <= 1
        /\ \A h \in 1 .. Len(scheme_hits) :
              \E g \in 1 .. Len(trivial_hits) : trivial_hits[g] = scheme_hits[h]

\* The positions p of t at which q differs from t[p .. p+|q|) in at most k
\* places.
HammingPositions(t, q, k) ==
    { p \in 0 .. (Len(t) - Len(q)) :
        Cardinality({ j \in 1 .. Len(q) : t[p + j] # q[j] }) <= k }

\* The text positions of a list of callbacks (l, r, errors) on cst.
IntervalPositions(cst, cbs) ==
    UNION { { cst.sa[i + 1] : i \in cbs[h].l .. cbs[h].r } : h \in 1 .. Len(cbs) }

FloorOfRate(rate, n) == (rate * n) \div RateDenominator

BudgetsAreFloors ==
    /\ errors.total = FloorOfRate(arg.t.total, arg.query_size)
    /\ errors.substitution = FloorOfRate(arg.t.substitution, arg.query_size)
    /\ errors.insertion = FloorOfRate(arg.t.insertion, arg.query_size)
    /\ errors.deletion = FloorOfRate(arg.t.deletion, arg.query_size)

\* C24: with max_error_rate each of the four budgets (total, substitution,
\* insertion, deletion) used for a query Q is floor(rate * |Q|).
C24_BudgetIsFloorOfRate ==
    (kind = "error_rate" /\ op = "retrieve_max_error") => BudgetsAreFloors

\* C24, restricted: the budgets are the floors when none of the four
\* products exceeds the largest value of uint8_t.
C24_BudgetIsFloorOfRateUpTo255 ==
    (/\ kind = "error_rate" /\ op = "retrieve_max_error"
     /\ \A f \in {"total", "substitution", "insertion", "deletion"} :
            FloorOfRate(arg.t[f], arg.query_size) <= U8Max)
        => BudgetsAreFloors

\* The query of length 7 with rate .25 got the budget 1.
C24_Witness ==
    /\ kind = "error_rate" /\ op = "retrieve_max_error"
    /\ arg.query_size = 7 /\ arg.t.total = 25 /\ errors.total = 1

\* The smallest number of mismatches with which q occurs in t, k + 1 when
\* it needs more than k.
RECURSIVE BestHamming(_, _, _, _)
BestHamming(t, q, b, k) ==
    IF b > k \/ HammingPositions(t, q, b) # {} THEN b
    ELSE BestHamming(t, q, b + 1, k)

\* The facade has searched with a budget of mismatches only.
FacadeHamming(strategy) ==
    /\ op = "search_single"
    /\ arg.strategy = strategy
    /\ errors.insertion = 0 /\ errors.deletion = 0
    /\ errors.total = errors.substitution

\* The text positions a returned hit stands for.
HitPositions(hit) ==
    IF arg.output = "index_iterator"
    THEN IF hit.depth = Len(query)
         THEN { bi_locate(index, hit)[i] : i \in 1 .. bi_count(hit) }
         ELSE {-1}
    ELSE {hit}

\* C25: in mode best the facade returns exactly one match if a match exists
\* within the configured budget and none otherwise, and the returned match
\* has the minimum number of errors among the matches within the budget
\* (stated for budgets of mismatches).
C25_BestReturnsOneBestMatch ==
    FacadeHamming("best") =>
        LET b == BestHamming(text, query, 0, errors.total)
        IN  IF b <= errors.total
            THEN /\ Len(ret) = 1
                 /\ HitPositions(ret[1]) \subseteq HammingPositions(text, query, b)
            ELSE ret = << >>

\* C25, weakened: in mode best the facade returns at most one match, and it
\* is a match within the configured budget.
C25_BestReturnsAtMostOneMatch ==
    FacadeHamming("best") =>
        /\ Len(ret) <= 1
        /\ \A h \in 1 .. Len(ret) :
              HitPositions(ret[h]) \subseteq
                  HammingPositions(text, query, errors.total)

\* The text positions of all returned hits.
ReturnedPositions == UNION { HitPositions(ret[h]) : h \in 1 .. Len(ret) }

\* The number of mismatches of the stratum above b: b + s when the
\* configuration allows mismatches at all.
StratumOf(b) == IF errors.substitution > 0 THEN b + arg.s ELSE 0

\* C26: in mode strata(s), for a query that has a match within the
\* configured budget, the facade reports every match with at most b + s
\* errors, b being the smallest error count of any match, and no match with
\* more than b + s errors (stated for budgets of mismatches).
C26_StrataReportsUpToBestPlusS ==
    (/\ FacadeHamming("strata")
     /\ BestHamming(text, query, 0, errors.total) <= errors.total)
        => ReturnedPositions =
               HammingPositions(text, query,
                   StratumOf(BestHamming(text, query, 0, errors.total)))

\* C26, weakened: in mode strata(s) every reported match has at most
\* max_total + s errors.
C26_StrataReportsWithinBudgetPlusS ==
    FacadeHamming("strata")
        => ReturnedPositions \subseteq
               HammingPositions(text, query, StratumOf(errors.total))

\* No value occurs twice in the list s.
NoDuplicates(s) == \A i, j \in 1 .. Len(s) : s[i] = s[j] => i = j

\* C27: when the facade returns text positions, the list returned for a
\* query contains every text position at most once, even when several
\* alignments reach the same position.
C27_PositionsReturnedOnce ==
    (op = "search_single" /\ arg.output = "text_position")
        => NoDuplicates(ret)

\* C27, restricted: the returned text positions are distinct when the
\* budget allows mismatches only.
C27_PositionsReturnedOnceForMismatches ==
    (/\ op = "search_single" /\ arg.output = "text_position"
     /\ errors.insertion = 0 /\ errors.deletion = 0)
        => NoDuplicates(ret)

\* In the edit sequence e the operation a is never immediately followed by
\* the operation b.
NeverFollowedBy(e, a, b) ==
    \A i \in 1 .. (Len(e) - 1) : ~(e[i] = a /\ e[i + 1] = b)

\* C28: in every edit sequence explored by the trivial driver an insertion
\* is never immediately followed by a deletion, a deletion is never
\* immediately followed by an insertion, and the first operation is never a
\* deletion.
C28_EditSequencesWellFormed ==
    op = "search_trivial_edits" =>
        \A e \in ret :
            /\ NeverFollowedBy(e, "insertion", "deletion")
            /\ NeverFollowedBy(e, "deletion", "insertion")
            /\ (e # << >> => e[1] # "deletion")

\* C28 witness: the driver has explored sequences with an insertion and a
\* deletion separated by a match, in both orders.
C28_Witness ==
    /\ op = "search_trivial_edits"
    /\ <<"insertion", "match", "deletion">> \in ret
    /\ <<"match", "deletion", "match", "insertion">> \in ret

\* C29: for every scheme, precomputed or the single-block fallback, every
\* query and every error budget the search-scheme driver never reads the
\* query, pi, L, U or the block-length table outside their bounds and never
\* moves the covered range below 0 or above |Q| + 1.
C29_DriverStaysInBounds ==
    op = "search_scheme_accesses" => ret = FALSE

\* C29, restricted: the driver stays in bounds for the schemes with more
\* than one block.
C29_DriverStaysInBoundsManyBlocks ==
    (op = "search_scheme_accesses" /\ Len(arg[1].pi) > 1) => ret = FALSE

\* C30: for every configured maximum total error in [0, 255] the loop that
\* raises the total budget from 0 ends after at most max_total + 1 driver
\* runs, also when the query has no match within the budget, and the 8-bit
\* budget counter never wraps around: it always equals the number of runs.
C30_LoopEndsWithinBudget ==
    op \in {"raise_total", "search_single"} =>
        /\ ret.runs <= errors.total + 1
        /\ ret.total = ret.runs

\* C30, restricted: the loop ends after at most max_total + 1 driver runs
\* without a wrap of the counter when the configured total is below 255.
C30_LoopEndsWithinBudgetBelow255 ==
    (op \in {"raise_total", "search_single"} /\ errors.total < U8Max) =>
        /\ ret.runs <= errors.total + 1
        /\ ret.total = ret.runs

=============================================================================
